---- MODULE Spec2Model ----
(***************************************************************************)
(* Model of the contribution-acquisition engine of                        *)
(* github_contributions_tracker/tracker.py: get_contributions and its     *)
(* four strategies (Conservative, BulkSearch, GraphQLBatch and            *)
(* ExhaustiveEnumeration), repository discovery and the fallback edges.   *)
(*                                                                         *)
(* The remote platform is a value fixed at Init: its repositories, their  *)
(* visibility, its commits, the remote calls that raise and the order in  *)
(* which a Python set is listed.  One get_contributions call runs from    *)
(* pc = "entry" to pc = "done" (a ContributionSet is returned) or         *)
(* pc = "raised" (an exception reaches the caller).                       *)
(***************************************************************************)
EXTENDS Integers, Sequences, FiniteSets, TLC

VARIABLES remote, args, pc, repos_with_contributions, consArgs, entered, result,
          current_date, chunks, discovery, batch_start, given, tracker, report, events

\* the state one get_contributions call works on
call == <<remote, args, pc, repos_with_contributions, consArgs, entered, result>>

\* the cursor and the chunks of a Conservative run followed chunk by chunk,
\* and what one _get_repos_with_contributions call returned
call_but_pc == <<remote, args, repos_with_contributions, consArgs, entered, result>>
\* given: the arguments and the environment of a constructor call;
\* tracker: the object it builds; report: a rendering and what it is made from;
\* events: the repositories visited and the time.sleep calls made so far by
\* the loops that are followed turn by turn, in the order they happened
aux == <<current_date, chunks, discovery, batch_start, given, tracker, report, events>>

vars == <<call, aux>>

(* ------------------------------ bounds -------------------------------- *)
\* last day (exclusive) of the date range given to get_contributions
EndDay == 10
\* most commits the remote holds
MaxCommits == 2
\* most anomalies of the remote: raising call sites plus private repositories
MaxAnomalies == 1
\* the repositories handed to GraphQLBatch, where they fill more than a batch
MaxBatchRepos == 6
\* the repositories one chunk of Conservative may discover
MaxChunkRepos == 12
\* the most repositories of a remote whose loops are followed to their end
MaxLoopRepos == 3
\* most commit records of a set that is rendered
MaxReportCommits == 3
\* the longest AI output, in lines
MaxLines == 3
\* most commits of one repository, where one repository is busy
MaxRepoCommits == 52
\* latest first day and latest last day of a range cut into chunks
MaxStart == 3
MaxEnd == 24

(* ------------------------- program constants -------------------------- *)
ShortLen == 7
ChunkDays == 7
CommitCap == 50
ChunkRepoCap == 10
BatchSize == 5
ExhaustivePerPage == 100
ConservativePerPage == 30
\* time.sleep(2) of a chunk, time.sleep(1) of a batch
ChunkPause == 2
BatchPause == 1

(* ------------------------- sequence helpers --------------------------- *)
\* s[:n]
Take(s, n) == SubSeq(s, 1, IF Len(s) < n THEN Len(s) ELSE n)

Range(s) == {s[i] : i \in 1..Len(s)}

Min(a, b) == IF a < b THEN a ELSE b

\* the rotations of a sequence
Rotations(s) == {SubSeq(s, i, Len(s)) \o SubSeq(s, 1, i - 1) : i \in 1..Len(s)}

\* the subsets of S of at most n elements
RECURSIVE SubsetsUpTo(_, _)
SubsetsUpTo(S, n) ==
  IF n = 0 THEN {{}}
  ELSE LET smaller == SubsetsUpTo(S, n - 1)
       IN smaller \cup {T \cup {x} : T \in smaller, x \in S}

(* --------------------------- the remote ------------------------------- *)
Login == "me"

\* a repository full name "owner/name", held as its segments
Repos == {<<"me", "x">>, <<"org", "x">>, <<"me", "y">>}

RepoSeq == <<(<<"me", "x">>), (<<"org", "x">>), (<<"me", "y">>)>>

ShaA == <<1, 1, 1, 1, 1, 1, 1, 1>>
ShaA2 == <<1, 1, 1, 1, 1, 1, 1, 2>>
ShaB == <<2, 2, 2, 2, 2, 2, 2, 2>>

\* the commits a remote may hold: [repo, sha, day, author]
CommitSeq ==
  << [repo |-> <<"me", "x">>, sha |-> ShaA, day |-> 1, author |-> "me"],
     [repo |-> <<"org", "x">>, sha |-> ShaA, day |-> 1, author |-> "me"],
     [repo |-> <<"me", "x">>, sha |-> ShaA2, day |-> 8, author |-> "me"],
     [repo |-> <<"me", "y">>, sha |-> ShaB, day |-> 8, author |-> "me"],
     [repo |-> <<"me", "y">>, sha |-> ShaB, day |-> 1, author |-> "other"] >>

\* the text of a raised error, as its words
ErrTexts ==
  { <<"403", "Forbidden">>,
    <<"API", "Rate", "Limit", "exceeded">>,
    <<"500", "Server", "Error">> }

OtherErr == <<"500", "Server", "Error">>

\* the remote calls that can raise
SearchSites(e) == {<<"search", 0, e>>, <<"search", 0, ChunkDays>>, <<"search", ChunkDays, e>>}

\* <<"all">>: the rate limit is exhausted and every remote call raises
Sites(e) ==
  SearchSites(e) \cup {<<"searchIter", 0, e>>} \cup {<<"get_repos">>}
    \cup {<<"get_repo", r>> : r \in Repos}
    \cup {<<"get_commits", r>> : r \in Repos}
    \cup {<<"graphql", r>> : r \in Repos}

\* a fault: the site and the text it raises; only the bulk search's text
\* is inspected by the code
Faults(e) ==
  {[site |-> s, text |-> OtherErr] : s \in Sites(e)}
    \cup {[site |-> s, text |-> t] :
            s \in {<<"search", 0, e>>, <<"all">>}, t \in ErrTexts}

Fails(site) == \E f \in remote.faults : f.site \in {site, <<"all">>}

ErrText(site) == (CHOOSE f \in remote.faults : f.site \in {site, <<"all">>}).text

\* one text per site; when every call raises, that is the only fault
FunctionalFaults(F) ==
  \A f, g \in F : (f.site = g.site \/ f.site = <<"all">>) => f = g

(* ------------------------- the tracker object ------------------------- *)
\* Python's None, where a string may stand
None == "None"

\* no constructor call, no object, no rendering
NoGiven == [token |-> None, username |-> None, GITHUB_TOKEN |-> None]

NoTracker == [token |-> None, github |-> None, user |-> None, calls |-> <<>>]

NoReport == [of |-> <<>>, text |-> <<>>]

(* ------------------------- RateLimitGuard ------------------------------ *)
\* str.lower() on the words an error text is made of
Lower(w) ==
  CASE w = "Rate" -> "rate"
    [] w = "Limit" -> "limit"
    [] w = "API" -> "api"
    [] w = "Forbidden" -> "forbidden"
    [] w = "Server" -> "server"
    [] w = "Error" -> "error"
    [] OTHER -> w

\* "403" in str(e) or "rate limit" in str(e).lower()
IsRateLimited(text) ==
  \/ \E i \in 1..Len(text) : text[i] = "403"
  \/ \E i \in 1..(Len(text) - 1) :
       Lower(text[i]) = "rate" /\ Lower(text[i + 1]) = "limit"

(* ------------------------- remote calls -------------------------------- *)
\* commit.html_url.split('/') of https://github.com/owner/repo/commit/sha
HtmlUrl(c) == <<"https:", "", "github.com", c.repo[1], c.repo[2], "commit", c.sha>>

\* repo.html_url.split('/')
RepoUrl(r) == <<"https:", "", "github.com", r[1], r[2]>>

\* the results of search_commits for author:Login committer-date:s..e
SearchCommits(s, e) ==
  SelectSeq(remote.commits, LAMBDA c :
    c.author = Login /\ s <= c.day /\ c.day <= e)

\* repo.get_commits(since, until, author=self.user)
GetCommits(r, s, e) ==
  SelectSeq(remote.commits, LAMBDA c :
    c.repo = r /\ c.author = Login /\ s <= c.day /\ c.day <= e)

\* the default branch history of r between since and until, every author
History(r, s, e) ==
  SelectSeq(remote.commits, LAMBDA c :
    c.repo = r /\ s <= c.day /\ c.day <= e)

\* self.user.get_repos()
UserRepos == SelectSeq(remote.repos, LAMBDA r : r[1] = Login)

IsPrivate(r) == r \in remote.private

\* list(a_set): the elements in the order this process lists a set
ListOfSet(S) == SelectSeq(remote.setOrder, LAMBDA r : r \in S)

(* ------------------------- records ------------------------------------- *)
\* a dict that starts with an issue in it
ContributionsWithIssue ==
  [commits |-> <<>>, pull_requests |-> <<>>, issues |-> <<"issue">>, reviews |-> <<>>,
   repositories |-> <<>>]

EmptyContributions ==
  [commits |-> <<>>, pull_requests |-> <<>>, issues |-> <<>>, reviews |-> <<>>,
   repositories |-> <<>>]

\* commit_data of the REST strategies: repo name, sha[:7], date, url
\* tzinfo of the datetime the remote client gives for the commit: "naive"
\* when it has none; a commit that does not say is in UTC
Zone(c) == IF "zone" \in DOMAIN c THEN c.zone ELSE "UTC"

\* if commit_date.tzinfo is None: commit_date.replace(tzinfo=timezone.utc);
\* the wall-clock time stays
CoerceUtc(rec) == [rec EXCEPT !.tzinfo = IF @ = "naive" THEN "UTC" ELSE @]

CommitData(name, c) ==
  [repo |-> name, sha |-> Take(c.sha, ShortLen), date |-> c.day, tzinfo |-> Zone(c),
   url |-> HtmlUrl(c)]

RepoData(name, url, private) == [name |-> name, url |-> url, private |-> private]

\* url_parts[3] / url_parts[4] when len(url_parts) >= 5
UrlRepo(url) == <<url[4], url[5]>>

Raised == [ok |-> FALSE, val |-> <<>>]
Returned(v) == [ok |-> TRUE, val |-> v]

(* ------------------------- RepositoryDiscovery ------------------------- *)
\* an enumeration that keeps the private repositories whatever is asked
EnumerateReposAll(include_private) ==
  IF Fails(<<"get_repos">>) THEN Raised ELSE Returned(UserRepos)

\* the fallback of _get_repos_with_contributions, and optimize=False
EnumerateRepos(include_private) ==
  IF Fails(<<"get_repos">>) THEN Raised
  ELSE Returned(SelectSeq(UserRepos, LAMBDA r : include_private \/ ~IsPrivate(r)))

SearchRaises(s, e) == Fails(<<"search", s, e>>) \/ Fails(<<"searchIter", s, e>>)

\* a filter that keeps the repositories it could not resolve
PublicOnlyKeepUnresolved(S) == {r \in S : Fails(<<"get_repo", r>>) \/ ~IsPrivate(r)}

\* the visibility filter: keep the repositories resolved and found public
PublicOnly(S) == {r \in S : ~Fails(<<"get_repo", r>>) /\ ~IsPrivate(r)}

\* _get_repos_with_contributions
GetReposWithContributions(s, e, include_private) ==
  IF SearchRaises(s, e) THEN EnumerateRepos(include_private)
  ELSE LET res == SearchCommits(s, e)
           found == {UrlRepo(HtmlUrl(res[i])) : i \in {j \in 1..Len(res) : Len(HtmlUrl(res[j])) >= 5}}
       IN Returned(ListOfSet(IF include_private THEN found ELSE PublicOnly(found)))

(* ------------------------- paginated lists ----------------------------- *)
Map(s, F(_)) == [i \in 1..Len(s) |-> F(s[i])]

\* the events of a loop: a repository it visits in the pass named, and a pause
Visit(r, pass) == [event |-> "visit", repo |-> r, pass |-> pass]

Visits(list, pass) == [i \in 1..Len(list) |-> Visit(list[i], pass)]

Sleep(seconds, at) == [event |-> "sleep", seconds |-> seconds, at |-> at]

\* the pages that hold n items
NumPages(n, per_page) == (n + per_page - 1) \div per_page

\* the first page after the first whose request raises, among the pages
\* that hold the first `reach` commits of r; 0 when none does.  The first
\* page is requested by get_commits itself: site <<"get_commits", r>>
FailingPage(r, reach, per_page) ==
  LET bad == {k \in 2..NumPages(reach, per_page) : Fails(<<"get_commits_page", r, k>>)}
  IN IF bad = {} THEN 0 ELSE CHOOSE k \in bad : \A j \in bad : k <= j

\* for commit in commits, left by break once cap commits are taken: the for
\* statement asks for the next commit, and so for its page, before the body
\* runs; the commits of the pages before the one that raises were appended
Iterate(r, cs, cap, per_page) ==
  LET k == FailingPage(r, Min(Len(cs), cap + 1), per_page)
  IN IF k = 0 THEN [items |-> Take(cs, cap), raised |-> FALSE]
     ELSE [items |-> Take(cs, (k - 1) * per_page), raised |-> TRUE]

(* ------------------------- ExhaustiveEnumeration ----------------------- *)

\* one iteration of the loop of get_contributions over repos_with_contributions
ExhaustiveRepo(r, s, e, acc) ==
  IF Fails(<<"get_repo", r>>) \/ Fails(<<"get_commits", r>>) THEN acc
  ELSE LET it == Iterate(r, GetCommits(r, s, e), CommitCap, ExhaustivePerPage)
       IN [acc EXCEPT
             !.commits = @ \o Map(it.items, LAMBDA c : CoerceUtc(CommitData(r[2], c))),
             !.repositories = IF it.raised THEN @
                              ELSE Append(@, RepoData(r[2], RepoUrl(r), IsPrivate(r)))]

RECURSIVE ExhaustiveLoop(_, _, _, _)
ExhaustiveLoop(list, s, e, acc) ==
  IF list = <<>> THEN acc
  ELSE ExhaustiveLoop(Tail(list), s, e, ExhaustiveRepo(Head(list), s, e, acc))

FetchContributionsExhaustive(list, s, e) == ExhaustiveLoop(list, s, e, EmptyContributions)

(* ------------------------- Conservative -------------------------------- *)
\* one repository of one chunk
\* a check that never finds the repository
RepoExistsNever(acc, name) == FALSE

\* repo_exists = any(r['name'] == repo.name for r in contributions['repositories'])
RepoExists(acc, name) ==
  \E i \in 1..Len(acc.repositories) : acc.repositories[i].name = name

ConservativeRepo(r, cur, chunk_end, acc) ==
  IF Fails(<<"get_repo", r>>) \/ Fails(<<"get_commits", r>>) THEN acc
  ELSE LET cs == GetCommits(r, cur, chunk_end)
           it == Iterate(r, cs, Len(cs), ConservativePerPage)
           repo_exists == RepoExists(acc, r[2])
       IN [acc EXCEPT
             !.commits = @ \o Map(it.items, LAMBDA c : CommitData(r[2], c)),
             !.repositories = IF it.raised \/ repo_exists THEN @
                              ELSE Append(@, RepoData(r[2], RepoUrl(r), IsPrivate(r)))]

RECURSIVE ConservativeRepos(_, _, _, _)
ConservativeRepos(list, cur, chunk_end, acc) ==
  IF list = <<>> THEN acc
  ELSE ConservativeRepos(Tail(list), cur, chunk_end,
                         ConservativeRepo(Head(list), cur, chunk_end, acc))

\* the try of a chunk is left by an exception: discovery has raised (the
\* failures of one repository stay inside the inner try)
ChunkRaises(cur, chunk_end, include_private) ==
  ~GetReposWithContributions(cur, chunk_end, include_private).ok

\* for repo_name in repos_with_contributions[:10]: the repositories a chunk
\* whose discovery returned goes through
ChunkVisited(cur, chunk_end, include_private) ==
  Take(GetReposWithContributions(cur, chunk_end, include_private).val, ChunkRepoCap)

\* the body of the while loop: one chunk
\* a chunk that fetches every repository discovery returns
ConservativeChunkUncapped(cur, chunk_end, include_private, acc) ==
  LET d == GetReposWithContributions(cur, chunk_end, include_private)
  IN IF ~d.ok THEN acc
     ELSE ConservativeRepos(d.val, cur, chunk_end, acc)

\* a chunk whose failure throws away what the chunks before it collected
ConservativeChunkResetsOnFailure(cur, chunk_end, include_private, acc) ==
  LET d == GetReposWithContributions(cur, chunk_end, include_private)
  IN IF ~d.ok THEN EmptyContributions
     ELSE ConservativeRepos(Take(d.val, ChunkRepoCap), cur, chunk_end, acc)

ConservativeChunk(cur, chunk_end, include_private, acc) ==
  LET d == GetReposWithContributions(cur, chunk_end, include_private)
  IN IF ~d.ok THEN acc
     ELSE ConservativeRepos(Take(d.val, ChunkRepoCap), cur, chunk_end, acc)

\* a chunk that is not cut at the end of the range
ChunkEndUntruncated(cur, end) == cur + ChunkDays

\* chunk_end = min(current_date + chunk_size, end_date)
ChunkEnd(cur, end) == Min(cur + ChunkDays, end)

RECURSIVE ConservativeLoop(_, _, _, _)
ConservativeLoop(cur, end, include_private, acc) ==
  IF ~(cur < end) THEN acc
  ELSE LET chunk_end == ChunkEnd(cur, end)
       IN ConservativeLoop(chunk_end, end, include_private,
                           ConservativeChunk(cur, chunk_end, include_private, acc))

\* Conservative going on from what the strategy before it had collected
ConservativeStartKeepsPartial(partial) == partial

\* the contributions Conservative starts from: a fresh, empty dictionary,
\* whatever the strategy that called it had collected
ConservativeStart(partial) == EmptyContributions

\* _fetch_contributions_conservative
FetchContributionsConservative(start, end, include_private) ==
  ConservativeLoop(start, end, include_private, EmptyContributions)

(* ------------------------- BulkSearch ---------------------------------- *)
\* the keys of repo_commits, in insertion order
GroupKeys(res, keys) ==
  LET Keyed(i) == Len(HtmlUrl(res[i])) >= 5
      Key(i) == UrlRepo(HtmlUrl(res[i]))
      first == SelectSeq([i \in 1..Len(res) |-> i],
                         LAMBDA i : /\ Keyed(i)
                                    /\ Key(i) \notin Range(keys)
                                    /\ \A j \in 1..(i - 1) : ~(Keyed(j) /\ Key(j) = Key(i)))
  IN keys \o [n \in 1..Len(first) |-> Key(first[n])]

\* repo_commits[k]
Group(res, k) == SelectSeq(res, LAMBDA c : Len(HtmlUrl(c)) >= 5 /\ UrlRepo(HtmlUrl(c)) = k)

\* the commit loop without the [:50] slice
RECURSIVE BulkCommitsUncapped(_, _, _)
BulkCommitsUncapped(keys, res, acc) ==
  IF keys = <<>> THEN acc
  ELSE BulkCommitsUncapped(Tail(keys), res,
         acc \o Map(Group(res, Head(keys)), LAMBDA c : CommitData(Head(keys)[2], c)))

RECURSIVE BulkCommits(_, _, _)
BulkCommits(keys, res, acc) ==
  IF keys = <<>> THEN acc
  ELSE BulkCommits(Tail(keys), res,
         acc \o Map(Take(Group(res, Head(keys)), CommitCap),
                    LAMBDA c : CommitData(Head(keys)[2], c)))

\* the body of the outer try once the search has returned
BulkCollect(s, e, include_private) ==
  LET res == SearchCommits(s, e)
      keys == GroupKeys(res, <<>>)
      all_repos == IF include_private THEN Range(keys) ELSE PublicOnly(Range(keys))
  IN [EmptyContributions EXCEPT
        !.commits = BulkCommits(keys, res, <<>>),
        !.repositories = Map(ListOfSet(all_repos),
                             LAMBDA r : RepoData(r[2], RepoUrl(r), FALSE))]

\* the inner except returning the empty contributions on a rate limit
SearchExceptReturn(text) == IF IsRateLimited(text) THEN "return" ELSE "reraise"

\* the inner except: a rate-limited search falls back, any other is re-raised
SearchExcept(text) == IF IsRateLimited(text) THEN "fallback" ELSE "reraise"

\* no outer except: the error leaves _fetch_contributions_bulk_search
OuterExceptReraise(raised) == "raise"

\* the outer except: whatever is raised inside the try falls back
OuterExcept(raised) == "fallback"

\* _fetch_contributions_bulk_search: what it does, and what it has collected
FetchContributionsBulkSearch(s, e, include_private) ==
  IF Fails(<<"search", s, e>>)
    THEN LET inner == SearchExcept(ErrText(<<"search", s, e>>))
         IN [kind |-> IF inner = "reraise" THEN OuterExcept(inner) ELSE inner,
             val |-> EmptyContributions]
  ELSE IF Fails(<<"searchIter", s, e>>)
    THEN [kind |-> OuterExcept("iter"), val |-> EmptyContributions]
  ELSE [kind |-> "return", val |-> BulkCollect(s, e, include_private)]

\* the fallback restarting over the first chunk only
BulkFallbackArgsFirstChunk(s, e, include_private) ==
  [start |-> s, end |-> Min(s + ChunkDays, e), include_private |-> include_private]

\* the arguments the fallback of BulkSearch gives to Conservative
BulkFallbackArgs(s, e, include_private) ==
  [start |-> s, end |-> e, include_private |-> include_private]

(* ------------------------- GraphQLBatch -------------------------------- *)
\* what requestJson gives back for the commits query of a repository: the
\* outer shape, the status and the body of a (status, headers, body) tuple,
\* and what the JSON document holds
GoodResponse == [outer |-> "tuple", status |-> 200, body |-> "str", content |-> "ok"]

Contents ==
  {"ok", "errors", "data_null", "no_repository", "no_branch", "no_target", "no_history",
   "bad_node"}

\* the other responses
OddResponses ==
  {[outer |-> "tuple", status |-> 502, body |-> "obj", content |-> "ok"],
   [outer |-> "tuple", status |-> 200, body |-> "garbage", content |-> "ok"],
   [outer |-> "tuple", status |-> 200, body |-> "obj", content |-> "ok"],
   [outer |-> "int", status |-> 200, body |-> "obj", content |-> "ok"],
   [outer |-> "list", status |-> 200, body |-> "obj", content |-> "ok"]}
    \cup {[outer |-> "tuple", status |-> 200, body |-> "str", content |-> c] :
            c \in Contents \ {"ok"}}
    \cup {[outer |-> "dict", status |-> 200, body |-> "obj", content |-> c] : c \in Contents}

\* the response of the remote for repository r
Response(r) ==
  LET odd == {f \in remote.faults : f.site = <<"graphql_response", r>>}
  IN IF odd = {} THEN GoodResponse ELSE (CHOOSE f \in odd : TRUE).text

\* a decoding that does not look at the status of the tuple
DecodedIgnoresStatus(resp) ==
  CASE resp.outer = "tuple" -> IF resp.body = "garbage" THEN "skip" ELSE resp.content
    [] resp.outer = "int" -> "skip"
    [] resp.outer # "dict" -> "skip"
    [] OTHER -> resp.content

\* "Handle different response types": the document to work on, or "skip"
Decoded(resp) ==
  CASE resp.outer = "tuple" ->
         IF resp.status # 200 THEN "skip"
         ELSE IF resp.body = "garbage" THEN "skip"
         ELSE resp.content
    [] resp.outer = "int" -> "skip"
    [] resp.outer # "dict" -> "skip"
    [] OTHER -> resp.content

\* the documents that make the code go on to the next repository: an errors
\* field, no repository, no default branch, no target or no history in it;
\* "data": null raises in the inner try
SkippedContents ==
  {"skip", "errors", "data_null", "no_repository", "no_branch", "no_target", "no_history"}

\* a JSON null
Null == [null |-> TRUE]

\* node['author'] of the history node of commit c: the git author, the
\* account it is linked to and the login of that account; c.author tells
\* which of them the remote has
NodeAuthor(c) ==
  CASE c.author = "no_author" -> Null
    [] c.author = "no_user" -> [user |-> Null]
    [] OTHER -> [user |-> [login |-> c.author]]

\* a filter that takes any node whose author has a login
AuthorPassesAnyLogin(author) ==
  ~(author = Null \/ author.user = Null \/ author.user.login = "")

\* the author filter of the node loop
AuthorPasses(author) ==
  IF author = Null \/ author.user = Null \/ author.user.login = "" THEN FALSE
  ELSE author.user.login = Login

\* one turn of the loop over a batch.  "bad_node": the last node of the
\* history has no oid, which raises once the nodes before it are appended,
\* if the node passes the author filter
GraphQLRepo(r, s, e, acc) ==
  IF Fails(<<"graphql", r>>) THEN acc
  ELSE LET content == Decoded(Response(r))
           nodes == Take(History(r, s, e), CommitCap)
           raises == /\ content = "bad_node"
                     /\ nodes # <<>>
                     /\ AuthorPasses(NodeAuthor(nodes[Len(nodes)]))
           read == IF raises THEN Take(nodes, Len(nodes) - 1) ELSE nodes
           mine == SelectSeq(read, LAMBDA c : AuthorPasses(NodeAuthor(c)))
       IN IF content \in SkippedContents THEN acc
          ELSE [acc EXCEPT
                  !.commits = @ \o Map(mine, LAMBDA c : CommitData(r[2], c)),
                  !.repositories = IF raises THEN @
                                   ELSE Append(@, RepoData(r[2], RepoUrl(r), FALSE))]

\* batches that begin on the last repository of the batch before
BatchOverlapping(list, i) ==
  SubSeq(list, IF i = 0 THEN 1 ELSE i, Min(i + BatchSize, Len(list)))

\* batch = repos_with_contributions[i:i + batch_size]
Batch(list, i) == SubSeq(list, i + 1, Min(i + BatchSize, Len(list)))

RECURSIVE GraphQLLoop(_, _, _, _)
GraphQLLoop(list, s, e, acc) ==
  IF list = <<>> THEN acc
  ELSE GraphQLLoop(Tail(list), s, e, GraphQLRepo(Head(list), s, e, acc))

GraphQLCollect(list, s, e) == GraphQLLoop(list, s, e, EmptyContributions)

\* GraphQLBatch returning what it collected even when that is nothing
GraphQLNeverFallsBack(collected) == FALSE

\* if not contributions['commits']
GraphQLFallsBack(collected) == collected.commits = <<>>

\* the arguments the fallback of GraphQLBatch gives to Conservative
GraphQLFallbackArgs(s, e, collected) ==
  [start |-> s, end |-> e,
   include_private |-> \E i \in 1..Len(collected.repositories) :
                          collected.repositories[i].private]

\* _fetch_contributions_graphql
FetchContributionsGraphql(list, s, e) ==
  LET collected == GraphQLCollect(list, s, e)
  IN [kind |-> IF GraphQLFallsBack(collected) THEN "fallback" ELSE "return",
      val |-> collected]

(* ------------------------- get_contributions --------------------------- *)
\* Dispatch with BulkSearch tested before Conservative
DispatchBulkFirst(use_conservative, use_bulk, use_graphql) ==
  IF use_bulk THEN "BulkSearch"
  ELSE IF use_conservative THEN "Conservative"
  ELSE IF use_graphql THEN "GraphQLBatch"
  ELSE "ExhaustiveEnumeration"

\* Dispatch falling through to GraphQLBatch when nothing is requested
DispatchDefaultGraphQL(use_conservative, use_bulk, use_graphql) ==
  IF use_conservative THEN "Conservative"
  ELSE IF use_bulk THEN "BulkSearch"
  ELSE "GraphQLBatch"

\* the precedence of the strategy flags
Dispatch(use_conservative, use_bulk, use_graphql) ==
  IF use_conservative THEN "Conservative"
  ELSE IF use_bulk THEN "BulkSearch"
  ELSE IF use_graphql THEN "GraphQLBatch"
  ELSE "ExhaustiveEnumeration"

\* the repository list of get_contributions before the limit
InitialRepos(a) ==
  IF a.optimize THEN GetReposWithContributions(a.start, a.end, a.include_private)
  ELSE EnumerateRepos(a.include_private)

\* if limit and limit > 0: repos_with_contributions[:limit]
ApplyLimit(list, limit) == IF limit > 0 THEN Take(list, limit) ELSE list

\* Conservative handing over to BulkSearch instead of returning
AfterConservativeRetry == "BulkSearch"

\* Conservative returns its contributions: the call is over
AfterConservative == "done"

NoArgs == [start |-> -1, end |-> -1, include_private |-> FALSE]

\* the orders in which this process may list a set of repository names: a
\* set of two names is listed in either order
SetOrders == Rotations(RepoSeq)

\* the anomalies of a remote: what raises, and what is private
Anomalies ==
  {[faults |-> F, private |-> P] :
     F \in {G \in SubsetsUpTo(Faults(EndDay), MaxAnomalies) : FunctionalFaults(G)},
     P \in SubsetsUpTo(Repos, MaxAnomalies)}

Remotes ==
  {[repos |-> RepoSeq, commits |-> SelectSeq(CommitSeq, LAMBDA c : c \in C),
    private |-> a.private, faults |-> a.faults, setOrder |-> o] :
     C \in SubsetsUpTo(Range(CommitSeq), MaxCommits),
     a \in {x \in Anomalies : Cardinality(x.faults) + Cardinality(x.private) <= MaxAnomalies},
     o \in SetOrders}

Args ==
  [start : {0}, end : {EndDay}, include_private : BOOLEAN, optimize : BOOLEAN,
   limit : {0, 1}, use_graphql : BOOLEAN, use_bulk : BOOLEAN,
   use_conservative : BOOLEAN]

Init ==
  /\ remote \in Remotes
  /\ args \in Args
  /\ pc = "entry"
  /\ repos_with_contributions = <<>>
  /\ consArgs = NoArgs
  /\ entered = <<>>
  /\ result = EmptyContributions
  /\ current_date = 0
  /\ chunks = <<>>
  /\ discovery = Raised
  /\ batch_start = 0
  /\ given = NoGiven
  /\ tracker = NoTracker
  /\ report = NoReport
  /\ events = <<>>

\* get_contributions up to the call of the strategy it selects
GetContributions ==
  /\ pc = "entry"
  /\ LET d == InitialRepos(args)
         strategy == Dispatch(args.use_conservative, args.use_bulk, args.use_graphql)
     IN IF ~d.ok
          THEN /\ pc' = "raised"
               /\ UNCHANGED <<repos_with_contributions, consArgs, entered>>
          ELSE /\ pc' = strategy
               /\ repos_with_contributions' = ApplyLimit(d.val, args.limit)
               /\ entered' = <<strategy>>
               /\ consArgs' = IF strategy = "Conservative"
                                THEN [start |-> args.start, end |-> args.end,
                                      include_private |-> args.include_private]
                                ELSE consArgs
  /\ UNCHANGED <<remote, args, result>>
  /\ UNCHANGED aux

ExhaustiveEnumeration ==
  /\ pc = "ExhaustiveEnumeration"
  /\ result' = FetchContributionsExhaustive(repos_with_contributions, args.start, args.end)
  /\ pc' = "done"
  /\ UNCHANGED <<remote, args, repos_with_contributions, consArgs, entered>>
  /\ UNCHANGED aux

Conservative ==
  /\ pc = "Conservative"
  /\ result' = ConservativeLoop(consArgs.start, consArgs.end, consArgs.include_private,
                                ConservativeStart(result))
  /\ pc' = AfterConservative
  /\ entered' = IF AfterConservative = "done" THEN entered
                ELSE Append(entered, AfterConservative)
  /\ UNCHANGED <<remote, args, repos_with_contributions, consArgs>>
  /\ UNCHANGED aux

\* a strategy that returns, falls back to Conservative or lets its error out;
\* until the call is over, result is what the strategy at work has collected
Finish(out, fallbackArgs) ==
  /\ pc' = CASE out.kind = "return" -> "done"
             [] out.kind = "fallback" -> "Conservative"
             [] OTHER -> "raised"
  /\ result' = IF out.kind \in {"return", "fallback"} THEN out.val ELSE result
  /\ entered' = IF out.kind = "fallback" THEN Append(entered, "Conservative") ELSE entered
  /\ consArgs' = IF out.kind = "fallback" THEN fallbackArgs ELSE consArgs

BulkSearch ==
  /\ pc = "BulkSearch"
  /\ Finish(FetchContributionsBulkSearch(args.start, args.end, args.include_private),
            BulkFallbackArgs(args.start, args.end, args.include_private))
  /\ UNCHANGED <<remote, args, repos_with_contributions>>
  /\ UNCHANGED aux

GraphQLBatch ==
  /\ pc = "GraphQLBatch"
  /\ LET out == FetchContributionsGraphql(repos_with_contributions, args.start, args.end)
     IN Finish(out, GraphQLFallbackArgs(args.start, args.end, out.val))
  /\ UNCHANGED <<remote, args, repos_with_contributions>>
  /\ UNCHANGED aux

Next ==
  \/ GetContributions
  \/ ExhaustiveEnumeration
  \/ Conservative
  \/ BulkSearch
  \/ GraphQLBatch

Spec == Init /\ [][Next]_vars

(* ------------- one busy repository: caps and pages --------------------- *)
BusyRepo == <<"me", "x">>

QuietRepo == <<"me", "y">>

ShaOf(i) == <<i, 0, 0, 0, 0, 0, 0, i>>

\* n commits of the user in the busy repository and one in the quiet one,
\* all on day 1
BusyCommits(n) ==
  [i \in 1..n |-> [repo |-> BusyRepo, sha |-> ShaOf(i), day |-> 1, author |-> Login]]
    \o <<[repo |-> QuietRepo, sha |-> ShaB, day |-> 1, author |-> Login]>>

\* what can raise while the repositories are fetched; page 2 of the busy
\* repository is asked for once 30 of its commits have been iterated
FetchFaults ==
  {[site |-> st, text |-> OtherErr] :
     st \in {<<"get_repo", BusyRepo>>, <<"get_commits", BusyRepo>>,
             <<"get_commits_page", BusyRepo, 2>>, <<"get_repo", QuietRepo>>}}

BusyRemotes ==
  {[repos |-> <<BusyRepo, QuietRepo>>, commits |-> BusyCommits(n), private |-> {},
    faults |-> F, setOrder |-> o] :
     n \in 0..MaxRepoCommits,
     F \in SubsetsUpTo(FetchFaults, MaxAnomalies),
     o \in Rotations(<<BusyRepo, QuietRepo>>)}

\* the calls that ask for at most one strategy, with the default discovery
SinglePreference ==
  {a \in Args :
     /\ a.include_private /\ a.optimize /\ a.limit = 0
     /\ Cardinality({f \in {"c", "b", "g"} :
                       \/ f = "c" /\ a.use_conservative
                       \/ f = "b" /\ a.use_bulk
                       \/ f = "g" /\ a.use_graphql}) <= 1}

InitFetch ==
  /\ remote \in BusyRemotes
  /\ args \in SinglePreference
  /\ pc = "entry"
  /\ repos_with_contributions = <<>>
  /\ consArgs = NoArgs
  /\ entered = <<>>
  /\ result = EmptyContributions
  /\ current_date = 0
  /\ chunks = <<>>
  /\ discovery = Raised
  /\ batch_start = 0
  /\ given = NoGiven
  /\ tracker = NoTracker
  /\ report = NoReport
  /\ events = <<>>

SpecFetch == InitFetch /\ [][Next]_vars

(* ======================================================================= *)
(* Properties of get_contributions                                         *)
(* ======================================================================= *)
Started == Len(entered) >= 1

FullSearch == <<"search", args.start, args.end>>

FullSearchIter == <<"searchIter", args.start, args.end>>

\* Conservative run by the caller itself on the arguments of this call
ConservativeDirect ==
  FetchContributionsConservative(args.start, args.end, args.include_private)

\* what the Conservative entered by this call returns
ConservativeEntered ==
  FetchContributionsConservative(consArgs.start, consArgs.end, consArgs.include_private)

(* C1: when several strategy flags are set, the strategy get_contributions *)
(* enters is chosen by the precedence Conservative > BulkSearch >          *)
(* GraphQLBatch > ExhaustiveEnumeration, and the strategy of a flag that   *)
(* lost is not entered.                                                    *)
C1_Precedence ==
  Started =>
    /\ args.use_conservative => entered = <<"Conservative">>
    /\ (~args.use_conservative /\ args.use_bulk) =>
          /\ entered[1] = "BulkSearch"
          /\ "GraphQLBatch" \notin Range(entered)
          /\ "ExhaustiveEnumeration" \notin Range(entered)
    /\ (~args.use_conservative /\ ~args.use_bulk /\ args.use_graphql) =>
          /\ entered[1] = "GraphQLBatch"
          /\ "BulkSearch" \notin Range(entered)
          /\ "ExhaustiveEnumeration" \notin Range(entered)

C1_Witness ==
  /\ pc = "done"
  /\ args.use_conservative /\ args.use_bulk /\ args.use_graphql
  /\ entered = <<"Conservative">>
  /\ result.commits # <<>>

(* C2: when the commit search of BulkSearch raises a rate-limited error,   *)
(* get_contributions returns what Conservative returns when it is run      *)
(* directly on the same account, date range and include_private against    *)
(* the same remote.                                                        *)
BulkRateLimited ==
  /\ Started
  /\ entered[1] = "BulkSearch"
  /\ Fails(FullSearch)
  /\ IsRateLimited(ErrText(FullSearch))

C2_SubstitutionTransparency ==
  (pc = "done" /\ BulkRateLimited) => result = ConservativeDirect

C2_Witness ==
  /\ pc = "done"
  /\ BulkRateLimited
  /\ Len(result.commits) = 2
  /\ result.commits[2].date > ChunkDays

(* C3: when GraphQLBatch has collected no commit after all its batches,    *)
(* it enters Conservative, and the call returns what that Conservative     *)
(* returns and not the empty set of GraphQLBatch.                          *)
GraphQLCollectedNothing ==
  /\ Started
  /\ entered[1] = "GraphQLBatch"
  /\ GraphQLCollect(repos_with_contributions, args.start, args.end).commits = <<>>

C3_GraphQLZeroCommits ==
  (pc \in {"done", "raised"} /\ GraphQLCollectedNothing) =>
    /\ pc = "done"
    /\ entered = <<"GraphQLBatch", "Conservative">>
    /\ result = ConservativeEntered

C3_Witness ==
  /\ pc = "done"
  /\ GraphQLCollectedNothing
  /\ entered = <<"GraphQLBatch", "Conservative">>
  /\ result.commits # <<>>

(* C4: an error of BulkSearch that is not rate-limited, raised by the      *)
(* search call or while its results are iterated, makes the call enter     *)
(* Conservative and return its result; the error does not reach the        *)
(* caller.                                                                 *)
BulkOtherError ==
  /\ Started
  /\ entered[1] = "BulkSearch"
  /\ \/ Fails(FullSearch) /\ ~IsRateLimited(ErrText(FullSearch))
     \/ ~Fails(FullSearch) /\ Fails(FullSearchIter)

C4_BulkErrorFallsBack ==
  (pc # "BulkSearch" /\ BulkOtherError) =>
    /\ pc \in {"Conservative", "done"}
    /\ entered = <<"BulkSearch", "Conservative">>
    /\ pc = "done" => result = ConservativeEntered

C4_Witness ==
  /\ pc = "done"
  /\ BulkOtherError
  /\ Fails(FullSearchIter)
  /\ entered = <<"BulkSearch", "Conservative">>
  /\ result.commits # <<>>

(* C5: one call makes at most one fallback: at most two strategies are     *)
(* entered, Conservative is entered at most once, and no strategy is       *)
(* entered after Conservative.                                             *)
C5_AtMostOneFallback ==
  /\ Len(entered) <= 2
  /\ \A i \in 1..Len(entered) : entered[i] = "Conservative" => i = Len(entered)
  /\ Len(entered) = 2 => entered[1] \in {"BulkSearch", "GraphQLBatch"}

C5_Witness ==
  /\ pc = "done"
  /\ Len(entered) = 2
  /\ entered[2] = "Conservative"
  /\ result.repositories # <<>>

(* C6: when none of Conservative, BulkSearch and GraphQLBatch is           *)
(* requested, get_contributions runs ExhaustiveEnumeration over the list   *)
(* that discovery returned (cut to the limit, if one is given) and the     *)
(* call ends in that strategy.                                             *)
NoPreference == ~args.use_conservative /\ ~args.use_bulk /\ ~args.use_graphql

C6_DefaultIsExhaustive ==
  (Started /\ NoPreference) =>
    /\ entered = <<"ExhaustiveEnumeration">>
    /\ pc \in {"ExhaustiveEnumeration", "done"}
    /\ (pc = "done" /\ args.optimize) =>
          result = FetchContributionsExhaustive(
                     ApplyLimit(GetReposWithContributions(
                                  args.start, args.end, args.include_private).val,
                                args.limit),
                     args.start, args.end)

C6_Witness ==
  /\ pc = "done"
  /\ NoPreference
  /\ args.optimize
  /\ Len(result.repositories) = 2

(* C7: no two commit records of a returned ContributionSet have the same   *)
(* (repository name, short hash) pair.                                     *)
C7_NoDuplicateCommitKey ==
  pc = "done" =>
    \A i, j \in 1..Len(result.commits) :
      (result.commits[i].repo = result.commits[j].repo
         /\ result.commits[i].sha = result.commits[j].sha) => i = j

(* C8: the repository named in each commit record of a returned            *)
(* ContributionSet is the name of a RepositoryRecord of the same set.      *)
C8_CommitRepoIsListed ==
  pc = "done" =>
    \A i \in 1..Len(result.commits) :
      \E j \in 1..Len(result.repositories) :
        result.repositories[j].name = result.commits[i].repo

(* C9: no failure of a remote call reaches the caller of                   *)
(* get_contributions: the call always returns a ContributionSet.           *)
C9_NeverRaises == pc # "raised"

(* C10: in BulkSearch a commit-search failure that is not classified as    *)
(* rate-limited does not make the strategy fall back to Conservative.      *)
BulkSearchFailed ==
  /\ Started
  /\ entered[1] = "BulkSearch"
  /\ Fails(FullSearch)

C10_OnlyRateLimitFallsBack ==
  (BulkSearchFailed /\ ~IsRateLimited(ErrText(FullSearch))) =>
    "Conservative" \notin Range(entered)

(* C10, amended: a failed commit search makes BulkSearch fall back to      *)
(* Conservative whatever its classification; a rate-limited one through    *)
(* the handler of the search call, any other through the handler of the    *)
(* whole strategy.                                                         *)
C10_AnySearchFailureFallsBack ==
  (pc # "BulkSearch" /\ BulkSearchFailed) =>
    /\ pc \in {"Conservative", "done"}
    /\ entered = <<"BulkSearch", "Conservative">>

C10_Witness ==
  /\ pc = "done"
  /\ BulkSearchFailed
  /\ ErrText(FullSearch) = <<"API", "Rate", "Limit", "exceeded">>
  /\ entered = <<"BulkSearch", "Conservative">>

(* ------------- Conservative, one chunk at a time ----------------------- *)
\* a remote without anomalies
PlainRemote ==
  [repos |-> RepoSeq, commits |-> CommitSeq, private |-> {}, faults |-> {},
   setOrder |-> RepoSeq]

\* calls of Conservative over the ranges [start, end), the empty ones included
ChunkCalls ==
  {[start |-> st, end |-> en, include_private |-> TRUE, optimize |-> TRUE, limit |-> 0,
    use_conservative |-> TRUE, use_bulk |-> FALSE, use_graphql |-> FALSE] :
     st \in 0..MaxStart, en \in 0..MaxEnd}

InitChunks ==
  /\ remote = PlainRemote
  /\ args \in {a \in ChunkCalls : a.start <= a.end}
  /\ pc = "entry"
  /\ repos_with_contributions = <<>>
  /\ consArgs = NoArgs
  /\ entered = <<>>
  /\ result = EmptyContributions
  /\ current_date = 0
  /\ chunks = <<>>
  /\ discovery = Raised
  /\ batch_start = 0
  /\ given = NoGiven
  /\ tracker = NoTracker
  /\ report = NoReport
  /\ events = <<>>

\* current_date = start_date, with the fresh dict
ConservativeEnter ==
  /\ pc = "Conservative"
  /\ pc' = "chunk"
  /\ current_date' = consArgs.start
  /\ chunks' = <<>>
  /\ result' = ConservativeStart(result)
  /\ UNCHANGED <<remote, args, repos_with_contributions, consArgs, entered, discovery,
                 batch_start, given, tracker, report, events>>

\* one turn of the while loop
ChunkStep ==
  /\ pc = "chunk"
  /\ current_date < consArgs.end
  /\ LET chunk_end == ChunkEnd(current_date, consArgs.end)
     IN /\ chunks' = Append(chunks, <<current_date, chunk_end>>)
        /\ result' = ConservativeChunk(current_date, chunk_end, consArgs.include_private,
                                       result)
        /\ events' = IF ChunkRaises(current_date, chunk_end, consArgs.include_private)
                        THEN events
                      ELSE events
                             \o Visits(ChunkVisited(current_date, chunk_end,
                                                    consArgs.include_private),
                                       <<"chunk", current_date>>)
                             \o <<Sleep(ChunkPause, chunk_end)>>
        /\ current_date' = chunk_end
  /\ UNCHANGED <<remote, args, pc, repos_with_contributions, consArgs, entered, discovery,
                 batch_start, given, tracker, report>>

\* the loop condition fails: return contributions
ConservativeReturn ==
  /\ pc = "chunk"
  /\ ~(current_date < consArgs.end)
  /\ pc' = AfterConservative
  /\ UNCHANGED <<remote, args, repos_with_contributions, consArgs, entered, result>>
  /\ UNCHANGED aux

NextChunks == GetContributions \/ ConservativeEnter \/ ChunkStep \/ ConservativeReturn

SpecChunks == InitChunks /\ [][NextChunks]_vars

(* ------------- Conservative with chunks that fail ---------------------- *)
\* the chunks of the range [start, end)
ChunksOf(start, end) ==
  {<<cur, ChunkEnd(cur, end)>> :
     cur \in {start + k * ChunkDays : k \in 0..(MaxEnd \div ChunkDays)} \cap start..(end - 1)}

\* discovery raises for chunk ch: its search raises and so does the
\* enumeration of the account it falls back to
ChunkFault(ch) ==
  {[site |-> <<"search", ch[1], ch[2]>>, text |-> OtherErr],
   [site |-> <<"get_repos">>, text |-> OtherErr]}

\* the remotes of a call: nothing raises, everything raises, one repository
\* cannot be fetched, or discovery raises for one chunk of the range
FailingRemotes(a) ==
  {[PlainRemote EXCEPT !.faults = F] :
     F \in {{}, {[site |-> <<"all">>, text |-> OtherErr]},
            {[site |-> <<"get_repo", <<"me", "x">>>>, text |-> OtherErr]}}
           \cup {ChunkFault(ch) : ch \in ChunksOf(a.start, a.end)}}

InitFailing ==
  /\ args \in ChunkCalls
  /\ remote \in FailingRemotes(args)
  /\ pc = "Conservative"
  /\ repos_with_contributions = <<>>
  /\ consArgs = [start |-> args.start, end |-> args.end,
                 include_private |-> args.include_private]
  /\ entered = <<"Conservative">>
  /\ result = EmptyContributions
  /\ current_date = 0
  /\ chunks = <<>>
  /\ discovery = Raised
  /\ batch_start = 0
  /\ given = NoGiven
  /\ tracker = NoTracker
  /\ report = NoReport
  /\ events = <<>>

NextFailing == ConservativeEnter \/ ChunkStep \/ ConservativeReturn

SpecFailing == InitFailing /\ [][NextFailing]_vars

(* ------------- timestamps with and without a zone ---------------------- *)
Zones == {"naive", "UTC", "+02:00"}

\* a commit of the user in each of two repositories, each timestamp with
\* any of the zones
ZoneCommits(z1, z2) ==
  <<[repo |-> BusyRepo, sha |-> ShaA, day |-> 1, author |-> Login, zone |-> z1],
    [repo |-> QuietRepo, sha |-> ShaB, day |-> 8, author |-> Login, zone |-> z2]>>

ZoneRemotes ==
  {[repos |-> <<BusyRepo, QuietRepo>>, commits |-> ZoneCommits(z1, z2), private |-> {},
    faults |-> F, setOrder |-> o] :
     z1 \in Zones, z2 \in Zones,
     F \in {{}, {[site |-> <<"search", 0, EndDay>>, text |-> OtherErr]}},
     o \in Rotations(<<BusyRepo, QuietRepo>>)}

InitZones ==
  /\ remote \in ZoneRemotes
  /\ args \in SinglePreference
  /\ pc = "entry"
  /\ repos_with_contributions = <<>>
  /\ consArgs = NoArgs
  /\ entered = <<>>
  /\ result = EmptyContributions
  /\ current_date = 0
  /\ chunks = <<>>
  /\ discovery = Raised
  /\ batch_start = 0
  /\ given = NoGiven
  /\ tracker = NoTracker
  /\ report = NoReport
  /\ events = <<>>

SpecZones == InitZones /\ [][Next]_vars

(* ------------- GraphQLBatch, one batch at a time ----------------------- *)
RepoNames ==
  <<"r1", "r2", "r3", "r4", "r5", "r6", "r7", "r8", "r9", "r10", "r11", "r12", "r13",
    "r14">>

BatchRepos == [i \in 1..MaxBatchRepos |-> <<Login, RepoNames[i]>>]

\* authors without a login: no author at all, an author that is linked to
\* no account, an account with an empty login
Unlinked == <<"no_author", "no_user", "">>

\* one commit of the user in every repository, on day 1; the first
\* repository has a second one, and one of somebody else before them; the
\* next three have a commit each whose author has no login
BatchCommits ==
  <<[repo |-> BatchRepos[1], sha |-> ShaOf(0), day |-> 1, author |-> "other"]>>
    \o [i \in 1..MaxBatchRepos |->
          [repo |-> BatchRepos[i], sha |-> ShaOf(i), day |-> 1, author |-> Login]]
    \o <<[repo |-> BatchRepos[1], sha |-> ShaOf(MaxBatchRepos + 1), day |-> 1,
          author |-> Login]>>
    \o [i \in 1..Len(Unlinked) |->
          [repo |-> BatchRepos[i + 1], sha |-> ShaOf(MaxBatchRepos + 1 + i), day |-> 1,
           author |-> Unlinked[i]]]

\* the repositories whose request may go wrong: two of the first batch and
\* the first of the second
Troubled == {BatchRepos[1], BatchRepos[BatchSize], BatchRepos[BatchSize + 1]}

BatchFaults ==
  {[site |-> <<"graphql", r>>, text |-> OtherErr] : r \in Troubled}
    \cup {[site |-> <<"graphql_response", r>>, text |-> resp] :
            r \in Troubled, resp \in OddResponses}

BatchRemotes ==
  {[repos |-> BatchRepos, commits |-> C, private |-> {}, faults |-> F, setOrder |-> o] :
     C \in {<<>>, BatchCommits},
     F \in {G \in SubsetsUpTo(BatchFaults, MaxAnomalies) : FunctionalFaults(G)},
     o \in {BatchRepos, Tail(BatchRepos) \o <<Head(BatchRepos)>>}}

InitGraphQL ==
  /\ remote \in BatchRemotes
  /\ args \in {a \in Args : /\ a.use_graphql /\ ~a.use_conservative /\ ~a.use_bulk
                             /\ a.include_private /\ a.limit = 0}
  /\ pc = "entry"
  /\ repos_with_contributions = <<>>
  /\ consArgs = NoArgs
  /\ entered = <<>>
  /\ result = EmptyContributions
  /\ current_date = 0
  /\ chunks = <<>>
  /\ discovery = Raised
  /\ batch_start = 0
  /\ given = NoGiven
  /\ tracker = NoTracker
  /\ report = NoReport
  /\ events = <<>>

\* one turn of for i in range(0, len(repos_with_contributions), batch_size)
BatchStep ==
  /\ pc = "GraphQLBatch"
  /\ batch_start < Len(repos_with_contributions)
  /\ LET batch == Batch(repos_with_contributions, batch_start)
     IN /\ result' = GraphQLLoop(batch, args.start, args.end, result)
        /\ events' = events \o Visits(batch, <<"batches">>)
                        \o (IF batch_start + BatchSize < Len(repos_with_contributions)
                              THEN <<Sleep(BatchPause, batch_start + BatchSize)>>
                            ELSE <<>>)
  /\ batch_start' = batch_start + BatchSize
  /\ UNCHANGED <<remote, args, pc, repos_with_contributions, consArgs, entered,
                 current_date, chunks, discovery, given, tracker, report>>

\* the batches are over: return what was collected, or fall back
BatchesOver ==
  /\ pc = "GraphQLBatch"
  /\ ~(batch_start < Len(repos_with_contributions))
  /\ Finish([kind |-> IF GraphQLFallsBack(result) THEN "fallback" ELSE "return",
             val |-> result],
            GraphQLFallbackArgs(args.start, args.end, result))
  /\ UNCHANGED <<remote, args, repos_with_contributions>>
  /\ UNCHANGED aux

NextGraphQL == GetContributions \/ BatchStep \/ BatchesOver \/ Conservative

SpecGraphQL == InitGraphQL /\ [][NextGraphQL]_vars

(* ------------- Conservative with many repositories --------------------- *)
ManyRepos(n) == [i \in 1..n |-> <<Login, RepoNames[i]>>]

\* a commit of the user on day 1 in each of n repositories, and one on day
\* 8 in every second of them
ManyCommits(n) ==
  [i \in 1..n |-> [repo |-> ManyRepos(n)[i], sha |-> ShaOf(i), day |-> 1, author |-> Login]]
    \o SelectSeq(
         [i \in 1..n |-> [repo |-> ManyRepos(n)[i], sha |-> ShaOf(MaxChunkRepos + 1 + i),
                          day |-> ChunkDays + 1, author |-> Login]],
         LAMBDA c : c.sha[1] % 2 = MaxChunkRepos % 2)

ManyRemotes ==
  UNION {{[repos |-> ManyRepos(n), commits |-> ManyCommits(n), private |-> {},
           faults |-> {}, setOrder |-> o] : o \in Rotations(ManyRepos(n))} :
         n \in 1..MaxChunkRepos}

InitMany ==
  /\ remote \in ManyRemotes
  /\ args \in {a \in ChunkCalls : a.start = 0 /\ a.end = EndDay}
  /\ pc = "entry"
  /\ repos_with_contributions = <<>>
  /\ consArgs = NoArgs
  /\ entered = <<>>
  /\ result = EmptyContributions
  /\ current_date = 0
  /\ chunks = <<>>
  /\ discovery = Raised
  /\ batch_start = 0
  /\ given = NoGiven
  /\ tracker = NoTracker
  /\ report = NoReport
  /\ events = <<>>

SpecMany == InitMany /\ [][NextChunks]_vars

(* ------------- every loop, turn by turn -------------------------------- *)
\* the calls: Conservative over many ranges, the other strategies over one
LoopCalls ==
  {a \in ChunkCalls : a.start \in {0, MaxStart}}
    \cup {[a EXCEPT !.use_conservative = FALSE, !.use_bulk = b, !.use_graphql = g] :
            a \in {c \in ChunkCalls : c.start = 0 /\ c.end = EndDay}, b, g \in BOOLEAN}

\* what raises: nothing, every call, discovery for one chunk of a
\* Conservative call, the request for one repository of the others
LoopFaults(a) ==
  {{}, {[site |-> <<"all">>, text |-> OtherErr]}}
    \cup (IF a.use_conservative THEN {ChunkFault(ch) : ch \in ChunksOf(a.start, a.end)}
          ELSE {{[site |-> <<"graphql", ManyRepos(1)[1]>>, text |-> OtherErr]},
                {[site |-> <<"get_repo", ManyRepos(1)[1]>>, text |-> OtherErr]}})

\* the numbers of repositories: up to MaxLoopRepos for the strategies that
\* go through the commits of the search or of a chunk in one step, up to
\* MaxChunkRepos for the strategies that walk a list
LoopSizes(a) ==
  IF a.use_conservative \/ a.use_bulk THEN 0..MaxLoopRepos ELSE 0..MaxChunkRepos

LoopRemotes(a) ==
  UNION {{[repos |-> ManyRepos(n), commits |-> C, private |-> {}, faults |-> F,
           setOrder |-> ManyRepos(n)] :
            C \in {<<>>, ManyCommits(n)}, F \in LoopFaults(a)} : n \in LoopSizes(a)}

InitLoops ==
  /\ args \in LoopCalls
  /\ remote \in LoopRemotes(args)
  /\ pc = "entry"
  /\ repos_with_contributions = <<>>
  /\ consArgs = NoArgs
  /\ entered = <<>>
  /\ result = EmptyContributions
  /\ current_date = 0
  /\ chunks = <<>>
  /\ discovery = Raised
  /\ batch_start = 0
  /\ given = NoGiven
  /\ tracker = NoTracker
  /\ report = NoReport
  /\ events = <<>>

\* one turn of for i, repo_name in enumerate(repos_with_contributions, 1)
ExhaustiveStep ==
  /\ pc = "ExhaustiveEnumeration"
  /\ Len(events) < Len(repos_with_contributions)
  /\ LET repo_name == repos_with_contributions[Len(events) + 1]
     IN /\ result' = ExhaustiveRepo(repo_name, args.start, args.end, result)
        /\ events' = Append(events, Visit(repo_name, <<"repositories">>))
  /\ UNCHANGED <<remote, args, pc, repos_with_contributions, consArgs, entered,
                 current_date, chunks, discovery, batch_start, given, tracker, report>>

\* the list is exhausted: return contributions
ExhaustiveOver ==
  /\ pc = "ExhaustiveEnumeration"
  /\ ~(Len(events) < Len(repos_with_contributions))
  /\ pc' = "done"
  /\ UNCHANGED <<call_but_pc, aux>>

NextLoops ==
  \/ GetContributions
  \/ ExhaustiveStep
  \/ ExhaustiveOver
  \/ ConservativeEnter
  \/ ChunkStep
  \/ ConservativeReturn
  \/ BulkSearch
  \/ BatchStep
  \/ BatchesOver

SpecLoops == InitLoops /\ [][NextLoops]_vars

\* a step that can be taken is taken: no remote call hangs
SpecLoopsFair == SpecLoops /\ WF_vars(NextLoops)

(* ------------- constructing the tracker -------------------------------- *)
\* bool(v) of a string or None
Truthy(v) == v # None /\ v # ""

\* a constructor that looks at the environment first
TokenOfEnvFirst(token, env) == IF Truthy(env) THEN env ELSE token

\* token or os.getenv('GITHUB_TOKEN')
TokenOf(token, env) == IF Truthy(token) THEN token ELSE env

Tokens == {None, "", "tok_a", "tok_b"}

EnvTokens == {None, "", "tok_env"}

InitNew ==
  /\ remote \in {PlainRemote,
                 [PlainRemote EXCEPT !.faults = {[site |-> <<"get_user">>, text |-> OtherErr]}]}
  /\ args \in {a \in ChunkCalls : a.start = 0 /\ a.end = EndDay}
  /\ pc = "new"
  /\ repos_with_contributions = <<>>
  /\ consArgs = NoArgs
  /\ entered = <<>>
  /\ result = EmptyContributions
  /\ current_date = 0
  /\ chunks = <<>>
  /\ discovery = Raised
  /\ batch_start = 0
  /\ given \in [token : Tokens, username : {None, "bob"}, GITHUB_TOKEN : EnvTokens]
  /\ tracker = NoTracker
  /\ report = NoReport
  /\ events = <<>>

\* self.token = token or os.getenv('GITHUB_TOKEN'); raise ValueError without
ReadToken ==
  /\ pc = "new"
  /\ LET token == TokenOf(given.token, given.GITHUB_TOKEN)
     IN /\ tracker' = [tracker EXCEPT !.token = token]
        /\ pc' = IF Truthy(token) THEN "token" ELSE "raised"
  /\ UNCHANGED <<call_but_pc, current_date, chunks, discovery, batch_start, given, report, events>>

\* self.github = Github(self.token)
CreateClient ==
  /\ pc = "token"
  /\ tracker' = [tracker EXCEPT !.github = tracker.token]
  /\ pc' = "client"
  /\ UNCHANGED <<call_but_pc, current_date, chunks, discovery, batch_start, given, report, events>>

\* self.user = self.github.get_user(username) or self.github.get_user()
GetUser ==
  /\ pc = "client"
  /\ LET who == IF Truthy(given.username) THEN given.username ELSE Login
         request == IF Truthy(given.username) THEN <<"get_user", given.username>>
                    ELSE <<"get_user">>
     IN /\ tracker' = [tracker EXCEPT
                         !.calls = Append(@, request),
                         !.user = IF Fails(<<"get_user">>) THEN @ ELSE who]
        /\ pc' = IF Fails(<<"get_user">>) THEN "raised" ELSE "constructed"
  /\ UNCHANGED <<call_but_pc, current_date, chunks, discovery, batch_start, given, report, events>>

NextNew == ReadToken \/ CreateClient \/ GetUser

SpecNew == InitNew /\ [][NextNew]_vars

(* ------------- text ---------------------------------------------------- *)
\* A string is the sequence of its pieces: the characters that matter to
\* the code ("#", " ", "-", the newline NL) and runs of other characters
\* taken whole.
NL == "\n"

\* '\n'.join(lines)
RECURSIVE Join(_)
Join(lines) ==
  IF lines = <<>> THEN <<>>
  ELSE IF Len(lines) = 1 THEN lines[1]
  ELSE lines[1] \o <<NL>> \o Join(Tail(lines))

\* text.split('\n')
RECURSIVE Split(_)
Split(text) ==
  LET nls == {i \in 1..Len(text) : text[i] = NL}
  IN IF nls = {} THEN <<text>>
     ELSE LET i == CHOOSE k \in nls : \A j \in nls : k <= j
          IN <<SubSeq(text, 1, i - 1)>> \o Split(SubSeq(text, i + 1, Len(text)))

\* str(n) for the small counts
Str(n) == <<"0", "1", "2", "3", "4", "5", "6", "7", "8", "9", "10", "11", "12">>[n + 1]

(* ------------- generate_summary ---------------------------------------- *)
\* the commit line and the repository line of the markdown report
MarkdownCommitLine(c) ==
  <<"-", " ", "**", c.repo, "**: ", c.message, " (", c.sha, ")">>

MarkdownRepoLine(r) ==
  <<"-", " ", "**", r.name, "** (", IF r.private THEN "Private glyph" ELSE "Public glyph", ")">>

\* the commit line and the repository line of the plain report
PlainCommitLine(c) == <<"-", " ", c.repo, ": ", c.message, " (", c.sha, ")">>

PlainRepoLine(r) ==
  <<"-", " ", r.name, " (", IF r.private THEN "Private" ELSE "Public", ")">>

\* a count of commits that leaves the last one out
TotalCommitsShort(contributions) ==
  IF contributions.commits = <<>> THEN 0 ELSE Len(contributions.commits) - 1

\* total_commits = len(contributions['commits'])
TotalCommits(contributions) == Len(contributions.commits)

TotalRepos(contributions) == Len(contributions.repositories)

MarkdownSummary(contributions) ==
  Join(<< <<"#", " ", "GitHub Contributions Summary", NL>>,
          <<"#", "#", " ", "Overview">>,
          <<"-", " ", "**Total Commits**: ", Str(TotalCommits(contributions))>>,
          <<"-", " ", "**Repositories with Contributions**: ",
            Str(TotalRepos(contributions)), NL>> >>
       \o (IF contributions.commits = <<>> THEN <<>>
           ELSE << <<"#", "#", " ", "Commits">> >>
                  \o [i \in 1..Len(contributions.commits) |->
                        MarkdownCommitLine(contributions.commits[i])]
                  \o << <<>> >>)
       \o (IF contributions.repositories = <<>> THEN <<>>
           ELSE << <<"#", "#", " ", "Repositories with Contributions">> >>
                  \o [i \in 1..Len(contributions.repositories) |->
                        MarkdownRepoLine(contributions.repositories[i])]
                  \o << <<>> >>))

PlainSummary(contributions) ==
  Join(<< <<"GITHUB CONTRIBUTIONS SUMMARY">>,
          <<"========================================">>,
          <<>>,
          <<"OVERVIEW">>,
          <<"----------">>,
          <<"Total Commits: ", Str(TotalCommits(contributions))>>,
          <<"Repositories with Contributions: ", Str(TotalRepos(contributions))>>,
          <<>> >>
       \o (IF contributions.commits = <<>> THEN <<>>
           ELSE << <<"COMMITS">>, <<"----------">> >>
                  \o [i \in 1..Len(contributions.commits) |->
                        PlainCommitLine(contributions.commits[i])]
                  \o << <<>> >>)
       \o (IF contributions.repositories = <<>> THEN <<>>
           ELSE << <<"REPOSITORIES WITH CONTRIBUTIONS">>,
                   <<"--------------------------------">> >>
                  \o [i \in 1..Len(contributions.repositories) |->
                        PlainRepoLine(contributions.repositories[i])]
                  \o << <<>> >>))

\* generate_summary: every format_type but 'markdown' gives the plain report
GenerateSummary(contributions, format_type) ==
  IF format_type = "markdown" THEN MarkdownSummary(contributions)
  ELSE PlainSummary(contributions)

(* ------------- _generate_low_level_tasks ------------------------------- *)
\* the repository names a report may meet, in the order sorted() gives them
SortedNames == <<"alpha", "beta", "gamma">>

Rank(name) == CHOOSE i \in 1..Len(SortedNames) : SortedNames[i] = name

\* the keys of repo_commits as the dict holds them: by first appearance
InsertionKeys(commits) ==
  LET first == SelectSeq([i \in 1..Len(commits) |-> i],
                         LAMBDA i : \A j \in 1..(i - 1) : commits[j].repo # commits[i].repo)
  IN [n \in 1..Len(first) |-> commits[first[n]].repo]

\* sorted(repo_commits.keys())
SortedKeys(commits) ==
  SelectSeq(SortedNames, LAMBDA name : \E i \in 1..Len(commits) : commits[i].repo = name)

\* the lines of one repository: header, its commits, an empty line
RepoBlock(commits, name) ==
  << <<" ", " ", "Repository: ", name>> >>
    \o Map(SelectSeq(commits, LAMBDA c : c.repo = name),
           LAMBDA c : <<" ", " ", " ", " ", "Commit: ", c.sha, " - ", c.message>>)
    \o << <<>> >>

RECURSIVE RepoBlocks(_, _)
RepoBlocks(commits, names) ==
  IF names = <<>> THEN <<>>
  ELSE RepoBlock(commits, Head(names)) \o RepoBlocks(commits, Tail(names))

LowLevelHeading == <<"#", "#", " ", "Low-Level Tasks">>

NoCommitsSentence == "No commits found in the specified time period."

GroupedSection(contributions) ==
  Join(<<LowLevelHeading \o <<NL>> >>
         \o RepoBlocks(contributions.commits, SortedKeys(contributions.commits)))

\* a section without the test for an empty commit list
GenerateLowLevelTasksAlwaysGrouped(contributions) == GroupedSection(contributions)

GenerateLowLevelTasks(contributions) ==
  IF contributions.commits = <<>>
    THEN LowLevelHeading \o <<NL, NL, NoCommitsSentence>>
  ELSE GroupedSection(contributions)

(* ------------- rendering a ContributionSet ----------------------------- *)
ReportCommits ==
  {[repo |-> n, sha |-> "aaaaaaa", message |-> "fix"] : n \in Range(SortedNames)}
    \cup {[repo |-> "gamma", sha |-> "bbbbbbb", message |-> "add"]}

ReportRepos ==
  {<<>>,
   <<[name |-> "beta", private |-> FALSE]>>,
   <<[name |-> "gamma", private |-> TRUE], [name |-> "alpha", private |-> FALSE]>>}

RECURSIVE SeqsUpTo(_, _)
SeqsUpTo(S, n) ==
  IF n = 0 THEN {<<>>}
  ELSE LET shorter == SeqsUpTo(S, n - 1)
       IN shorter \cup {Append(q, x) : q \in {t \in shorter : Len(t) = n - 1}, x \in S}

ReportSets ==
  {[commits |-> cs, pull_requests |-> <<>>, issues |-> <<>>, reviews |-> <<>>,
    repositories |-> rs] :
     cs \in SeqsUpTo(ReportCommits, MaxReportCommits), rs \in ReportRepos}

InitReport ==
  /\ remote = PlainRemote
  /\ args \in {a \in ChunkCalls : a.start = 0 /\ a.end = EndDay}
  /\ pc = "returned"
  /\ repos_with_contributions = <<>>
  /\ consArgs = NoArgs
  /\ entered = <<>>
  /\ result \in ReportSets
  /\ current_date = 0
  /\ chunks = <<>>
  /\ discovery = Raised
  /\ batch_start = 0
  /\ given = NoGiven
  /\ tracker = NoTracker
  /\ report = NoReport
  /\ events = <<>>

\* tracker.generate_summary(contributions, format_type)
RenderSummary ==
  /\ pc = "returned"
  /\ \E format_type \in {"markdown", "plain"} :
       /\ report' = [of |-> <<"generate_summary", format_type>>,
                     text |-> GenerateSummary(result, format_type)]
       /\ pc' = "rendered"
  /\ UNCHANGED <<call_but_pc, current_date, chunks, discovery, batch_start, given, tracker, events>>

\* tracker._generate_low_level_tasks(contributions)
RenderLowLevelTasks ==
  /\ pc = "returned"
  /\ report' = [of |-> <<"_generate_low_level_tasks">>,
                text |-> GenerateLowLevelTasks(result)]
  /\ pc' = "rendered"
  /\ UNCHANGED <<call_but_pc, current_date, chunks, discovery, batch_start, given, tracker, events>>

NextReport == RenderSummary \/ RenderLowLevelTasks

SpecReport == InitReport /\ [][NextReport]_vars

(* ------------- str.find, str.replace, str.strip ------------------------ *)
\* text.find(sub, start): the lowest index (from 0) at or after start where
\* sub occurs, -1 when there is none
Find(text, sub, start) ==
  LET at == {i \in start..(Len(text) - Len(sub)) :
               SubSeq(text, i + 1, i + Len(sub)) = sub}
  IN IF at = {} THEN -1 ELSE CHOOSE i \in at : \A j \in at : i <= j

\* sub in text
Contains(text, sub) == Find(text, sub, 0) # -1

\* text[:k] and text[k:]
Before(text, k) == SubSeq(text, 1, k)

From(text, k) == SubSeq(text, k + 1, Len(text))

\* text.replace(old, new): every occurrence, left to right, none overlapping
RECURSIVE Replace(_, _, _)
Replace(text, old, new) ==
  LET i == Find(text, old, 0)
  IN IF i = -1 THEN text
     ELSE Before(text, i) \o new \o Replace(From(text, i + Len(old)), old, new)

Whitespace == {" ", NL}

\* text.strip()
Strip(text) ==
  LET solid == {i \in 1..Len(text) : text[i] \notin Whitespace}
  IN IF solid = {} THEN <<>>
     ELSE SubSeq(text, CHOOSE i \in solid : \A j \in solid : i <= j,
                       CHOOSE i \in solid : \A j \in solid : i >= j)

(* ------------- BedrockSummarizer --------------------------------------- *)
\* what invoke_model does: it raises, or it returns a response whose body
\* is a JSON object
InvokeRaises(response) == "raises" \in DOMAIN response

\* response_body['content'][0]['text'].strip(), or the exception on the way
Extracted(response) ==
  IF InvokeRaises(response) THEN [error |-> response.raises]
  ELSE IF "content" \notin DOMAIN response.body THEN [error |-> "'content'"]
  ELSE IF response.body.content = <<>> THEN [error |-> "list index out of range"]
  ELSE IF "text" \notin DOMAIN response.body.content[1] THEN [error |-> "'text'"]
  ELSE [summary |-> Strip(response.body.content[1].text)]

CallFails(response) == "error" \in DOMAIN Extracted(response)

\* an except branch that returns the message alone
ErrorSummaryBare(e, contributions_list) == <<"Error generating summary: ", e>>

\* the string of the except branch
ErrorSummary(e, contributions_list) ==
  <<"Error generating summary: ", e, NL, NL, "Original contributions:", NL>>
    \o contributions_list

\* BedrockSummarizer.summarize_contributions
SummarizeContributions(response, contributions_list) ==
  IF CallFails(response)
    THEN ErrorSummary(Extracted(response).error, contributions_list)
  ELSE Extracted(response).summary

(* ------------- generate_bedrock_summary -------------------------------- *)
HighLevelHeading == <<"#", "#", " ", "High-Level Tasks Completed">>

OverviewHeading == <<"#", "#", " ", "Overview">>

\* the section put after the overview: before the next "##", or at the end
AfterOverview(bedrock_summary, low_level_section) ==
  LET overview_end ==
        Find(bedrock_summary, <<"#", "#">>, Find(bedrock_summary, OverviewHeading, 0) + 1)
  IN IF overview_end = -1 THEN bedrock_summary \o <<NL, NL>> \o low_level_section
     ELSE Before(bedrock_summary, overview_end)
            \o <<NL, NL>> \o low_level_section \o <<NL, NL>>
            \o From(bedrock_summary, overview_end)

\* lines 718-733: where the Low-Level Tasks section goes
InsertSection(bedrock_summary, low_level_section) ==
  IF Contains(bedrock_summary, HighLevelHeading)
    THEN Replace(bedrock_summary, HighLevelHeading,
                 low_level_section \o <<NL, NL>> \o HighLevelHeading)
  ELSE IF Contains(bedrock_summary, OverviewHeading)
    THEN AfterOverview(bedrock_summary, low_level_section)
  ELSE bedrock_summary \o <<NL, NL>> \o low_level_section

(* ------------- the AI collaborator ------------------------------------- *)
\* the lines an AI output is made of: headings of three levels, a heading
\* of level 3 that carries the title of the high-level section, list items,
\* an item that holds "##" inside the line, the empty line
AiLines ==
  {<<"#", " ", "Summary">>,
   OverviewHeading,
   HighLevelHeading,
   <<"#">> \o HighLevelHeading,
   <<"#", "#", "#", " ", "1. Delivery">>,
   <<"#", "#", " ", "Impact">>,
   <<"-", " ", "shipped">>,
   <<"-", " ", "see ", "#", "#", "12">>,
   <<>>}

AiTexts == {Join(ls) : ls \in SeqsUpTo(AiLines, MaxLines)}

Responses ==
  {[body |-> [content |-> <<[type |-> "text", text |-> t]>>]] : t \in AiTexts}
    \cup {[raises |-> "AccessDeniedException"],
          [body |-> [message |-> "Too many tokens"]],
          [body |-> [content |-> <<>>]],
          [body |-> [content |-> <<[type |-> "tool_use"]>>]]}

\* the collaborator: whether boto3.client raises, and what invoke_model does
Bedrocks ==
  {[client |-> "ok", response |-> r] : r \in Responses}
    \cup {[client |-> "raises", response |-> [raises |-> "AccessDeniedException"]]}

BedrockSets ==
  {[commits |-> cs, pull_requests |-> <<>>, issues |-> <<>>, reviews |-> <<>>,
    repositories |-> rs] :
     cs \in {<<>>,
             <<[repo |-> "beta", sha |-> "aaaaaaa", message |-> "fix"]>>,
             <<[repo |-> "beta", sha |-> "aaaaaaa", message |-> "fix"],
               [repo |-> "alpha", sha |-> "bbbbbbb", message |-> "add"]>>},
     rs \in {<<>>, <<[name |-> "beta", private |-> FALSE]>>}}

InitBedrock ==
  /\ remote \in {[repos |-> PlainRemote.repos, commits |-> PlainRemote.commits,
                  private |-> PlainRemote.private, faults |-> PlainRemote.faults,
                  setOrder |-> PlainRemote.setOrder, bedrock |-> b] : b \in Bedrocks}
  /\ args \in {a \in ChunkCalls : a.start = 0 /\ a.end = EndDay}
  /\ pc = "returned"
  /\ repos_with_contributions = <<>>
  /\ consArgs = NoArgs
  /\ entered = <<>>
  /\ result \in BedrockSets
  /\ current_date = 0
  /\ chunks = <<>>
  /\ discovery = Raised
  /\ batch_start = 0
  /\ given = NoGiven
  /\ tracker = NoTracker
  /\ report = NoReport
  /\ events = <<>>

\* line 706: regular_summary = self.generate_summary(contributions, 'markdown')
RegularSummary ==
  /\ pc = "returned"
  /\ report' = [of |-> <<"generate_bedrock_summary">>,
                regular_summary |-> GenerateSummary(result, "markdown"),
                bedrock_summary |-> <<>>,
                text |-> <<>>]
  /\ pc' = "regular"
  /\ UNCHANGED <<call_but_pc, current_date, chunks, discovery, batch_start, given, tracker, events>>

\* line 709: BedrockSummarizer(...), whose boto3.client is under no try
CreateSummarizer ==
  /\ pc = "regular"
  /\ pc' = IF remote.bedrock.client = "raises" THEN "raised" ELSE "summarizer"
  /\ UNCHANGED <<call_but_pc, aux>>

\* line 713: bedrock_summary = summarizer.summarize_contributions(regular_summary)
Summarize ==
  /\ pc = "summarizer"
  /\ report' = [report EXCEPT !.bedrock_summary =
                  SummarizeContributions(remote.bedrock.response, report.regular_summary)]
  /\ pc' = "summarized"
  /\ UNCHANGED <<call_but_pc, current_date, chunks, discovery, batch_start, given, tracker, events>>

\* lines 716-735: the section is built, put in, and the summary returned
InsertLowLevelTasks ==
  /\ pc = "summarized"
  /\ report' = [report EXCEPT !.text =
                  InsertSection(report.bedrock_summary, GenerateLowLevelTasks(result))]
  /\ pc' = "rendered"
  /\ UNCHANGED <<call_but_pc, current_date, chunks, discovery, batch_start, given, tracker, events>>

NextBedrock == RegularSummary \/ CreateSummarizer \/ Summarize \/ InsertLowLevelTasks

SpecBedrock == InitBedrock /\ [][NextBedrock]_vars

(* ------------- repository discovery, one step at a time ---------------- *)
\* what can raise during one discovery over the whole range
DiscoverFaults ==
  {[site |-> st, text |-> OtherErr] :
     st \in {<<"search", 0, EndDay>>, <<"searchIter", 0, EndDay>>, <<"get_repos">>,
             <<"all">>} \cup {<<"get_repo", r>> : r \in Repos}}

DiscoverRemotes ==
  {[repos |-> RepoSeq, commits |-> C, private |-> P, faults |-> F, setOrder |-> o] :
     C \in {<<>>, CommitSeq},
     P \in SUBSET Repos,
     F \in {G \in SubsetsUpTo(DiscoverFaults, MaxAnomalies) : FunctionalFaults(G)},
     o \in SetOrders}

InitDiscover ==
  /\ remote \in DiscoverRemotes
  /\ args \in {a \in Args : /\ a.optimize /\ a.limit = 0
                             /\ ~a.use_conservative /\ ~a.use_bulk /\ ~a.use_graphql}
  /\ pc = "entry"
  /\ repos_with_contributions = <<>>
  /\ consArgs = NoArgs
  /\ entered = <<>>
  /\ result = EmptyContributions
  /\ current_date = 0
  /\ chunks = <<>>
  /\ discovery = [ok |-> FALSE, val |-> <<>>, calls |-> <<>>]
  /\ batch_start = 0
  /\ given = NoGiven
  /\ tracker = NoTracker
  /\ report = NoReport
  /\ events = <<>>

\* the try block up to the end of the for loop over the search results
DiscoverSearch ==
  /\ pc = "entry"
  /\ IF SearchRaises(args.start, args.end)
       THEN /\ pc' = "except"
            /\ discovery' = [ok |-> FALSE, val |-> <<>>, calls |-> <<<<"search_commits">>>>]
       ELSE LET res == SearchCommits(args.start, args.end)
                found == {UrlRepo(HtmlUrl(res[i])) :
                            i \in {j \in 1..Len(res) : Len(HtmlUrl(res[j])) >= 5}}
            IN /\ pc' = "found"
               /\ discovery' = [ok |-> TRUE, val |-> ListOfSet(found),
                                calls |-> <<<<"search_commits">>>>]
  /\ UNCHANGED <<call_but_pc, current_date, chunks, batch_start, given, tracker, report, events>>

\* if not include_private: resolve each repository found, keep the public
\* ones, skip those whose resolution raises; then return the list
DiscoverFilter ==
  /\ pc = "found"
  /\ pc' = "returned"
  /\ discovery' =
       IF args.include_private THEN discovery
       ELSE [discovery EXCEPT
               !.val = ListOfSet(PublicOnly(Range(@))),
               !.calls = @ \o [i \in 1..Len(discovery.val) |-> <<"get_repo", discovery.val[i]>>]]
  /\ UNCHANGED <<call_but_pc, current_date, chunks, batch_start, given, tracker, report, events>>

\* the except block: enumerate the user's repositories and return them
DiscoverEnumerate ==
  /\ pc = "except"
  /\ LET en == EnumerateRepos(args.include_private)
     IN /\ pc' = IF en.ok THEN "returned" ELSE "raised"
        /\ discovery' = [ok |-> en.ok, val |-> en.val,
                         calls |-> Append(discovery.calls, <<"get_repos">>)]
  /\ UNCHANGED <<call_but_pc, current_date, chunks, batch_start, given, tracker, report, events>>

NextDiscover == DiscoverSearch \/ DiscoverFilter \/ DiscoverEnumerate

SpecDiscover == InitDiscover /\ [][NextDiscover]_vars

(* ----------------------------------------------------------------------- *)
(* Per-repository fetches                                                  *)
(* ----------------------------------------------------------------------- *)
\* the commit records of the result that belong to repository r
RecordsOf(r) ==
  Cardinality({i \in 1..Len(result.commits) : UrlRepo(result.commits[i].url) = r})

RemoteRepos == Range(remote.repos)

FirstChunkEnd == ChunkEnd(args.start, args.end)

\* the repository list the strategy that ran has worked on (for
\* Conservative: that of its first chunk)
Listed(r) ==
  IF entered[1] = "ExhaustiveEnumeration" THEN r \in Range(repos_with_contributions)
  ELSE r \in Range(GetReposWithContributions(args.start, FirstChunkEnd,
                                             args.include_private).val)

\* processing r has failed: resolving it, the first request for its
\* commits, or the request for a later page while they are iterated
FetchFailed(r) ==
  \/ Fails(<<"get_repo", r>>)
  \/ Fails(<<"get_commits", r>>)
  \/ /\ entered[1] = "ExhaustiveEnumeration"
     /\ FailingPage(r, Min(Len(GetCommits(r, args.start, args.end)), CommitCap + 1),
                    ExhaustivePerPage) # 0
  \/ /\ entered[1] = "Conservative"
     /\ FailingPage(r, Len(GetCommits(r, args.start, FirstChunkEnd)),
                    ConservativePerPage) # 0

(* C11: in ExhaustiveEnumeration and in Conservative a repository whose    *)
(* processing fails at any point, part-way through its commits included,   *)
(* contributes no commit record, and every other repository of the list    *)
(* is still processed.                                                     *)
C11_FailedRepoContributesNothing ==
  (pc = "done" /\ entered \in {<<"ExhaustiveEnumeration">>, <<"Conservative">>}) =>
    \A r \in RemoteRepos :
      /\ FetchFailed(r) => RecordsOf(r) = 0
      /\ (Listed(r) /\ ~FetchFailed(r)) =>
            \E j \in 1..Len(result.repositories) : result.repositories[j].url = RepoUrl(r)

(* C12: a ContributionSet returned by BulkSearch or by                     *)
(* ExhaustiveEnumeration holds at most 50 commit records of any one        *)
(* repository, however many commits the remote has for it.                 *)
C12_CapFifty ==
  (pc = "done" /\ entered \in {<<"BulkSearch">>, <<"ExhaustiveEnumeration">>}) =>
    \A r \in RemoteRepos : RecordsOf(r) <= CommitCap

C12_Witness ==
  /\ pc = "done"
  /\ entered = <<"BulkSearch">>
  /\ RecordsOf(BusyRepo) = CommitCap
  /\ Len(GetCommits(BusyRepo, args.start, args.end)) > CommitCap
  /\ RecordsOf(QuietRepo) = 1

(* C13: in Conservative one fetch of one repository adds at most 30        *)
(* commit records, however many commits the remote has for it in the       *)
(* chunk (here every commit lies in the first chunk: one fetch).           *)
C13_ConservativeCapThirty ==
  (pc = "done" /\ entered = <<"Conservative">>) =>
    \A r \in RemoteRepos : RecordsOf(r) <= ConservativePerPage

(* ----------------------------------------------------------------------- *)
(* The chunks of Conservative                                              *)
(* ----------------------------------------------------------------------- *)
\* the loop taken turn by turn collects what the loop taken at once does
ChunkStepsAgree ==
  pc = "done" =>
    result = FetchContributionsConservative(args.start, args.end, args.include_private)

(* C14: for every range with start < end the chunks Conservative works on  *)
(* are consecutive sub-ranges of 7 days: the first begins at start, each   *)
(* begins where the one before ended, every one but the last is 7 days     *)
(* long and the last is cut at end; a range of 10 days gives a chunk of 7  *)
(* days and one of 3.                                                      *)
C14_ChunkSequence ==
  (pc = "done" /\ args.start < args.end) =>
    LET n == Len(chunks)
    IN /\ n >= 1
       /\ chunks[1][1] = args.start
       /\ chunks[n][2] = args.end
       /\ \A i \in 1..n : /\ chunks[i][1] < chunks[i][2]
                          /\ chunks[i][2] - chunks[i][1] <= ChunkDays
       /\ \A i \in 1..(n - 1) : /\ chunks[i][2] - chunks[i][1] = ChunkDays
                                /\ chunks[i + 1][1] = chunks[i][2]
       /\ (args.end - args.start = 10) =>
             chunks = <<<<args.start, args.start + 7>>, <<args.start + 7, args.end>>>>

C14_Witness ==
  /\ pc = "done"
  /\ args.start = 0 /\ args.end = 10
  /\ chunks = <<<<0, 7>>, <<7, 10>>>>
  /\ Len(result.commits) > 0

(* ----------------------------------------------------------------------- *)
(* Repository records                                                      *)
(* ----------------------------------------------------------------------- *)
\* the commit records of the result that belong to r and bear the date d
RecordsOn(r, d) ==
  {i \in 1..Len(result.commits) :
     UrlRepo(result.commits[i].url) = r /\ result.commits[i].date = d}

\* the repository records of the result that stand for r
RepoRecords(r) ==
  {j \in 1..Len(result.repositories) : result.repositories[j].url = RepoUrl(r)}

(* C15: over the chunks of one Conservative run a repository that is       *)
(* already in the repository list of the result is not appended again:     *)
(* the returned list holds no repository (and no repository name) twice.   *)
C15_NoRepeatAcrossChunks ==
  (pc = "done" /\ entered[Len(entered)] = "Conservative") =>
    \A i, j \in 1..Len(result.repositories) :
      i # j => /\ result.repositories[i].url # result.repositories[j].url
               /\ result.repositories[i].name # result.repositories[j].name

\* commits of me/x in the first chunk and in the second, one record of me/x
C15_Witness ==
  /\ pc = "done"
  /\ entered = <<"Conservative">>
  /\ \E d1 \in 0..(ChunkDays - 1), d2 \in ChunkDays..EndDay :
       RecordsOn(<<"me", "x">>, d1) # {} /\ RecordsOn(<<"me", "x">>, d2) # {}
  /\ Cardinality(RepoRecords(<<"me", "x">>)) = 1

(* C16: in the set returned by any of the four strategies no two           *)
(* repository records bear the same name, repositories of different        *)
(* owners that share a name included.                                      *)
C16_UniqueRepoNames ==
  pc = "done" =>
    \A i, j \in 1..Len(result.repositories) :
      i # j => result.repositories[i].name # result.repositories[j].name

(* ----------------------------------------------------------------------- *)
(* Fallback                                                                *)
(* ----------------------------------------------------------------------- *)
FellBack == Len(entered) = 2 /\ entered[2] = "Conservative"

\* what GraphQLBatch had collected when it gave up
GraphQLPartial == GraphQLCollect(repos_with_contributions, args.start, args.end)

(* C17: when BulkSearch or GraphQLBatch falls back, Conservative runs over *)
(* the whole original range [start, end) and the returned set is the one   *)
(* Conservative collects by itself: no commit or repository record of the  *)
(* strategy that failed is in it.                                          *)
C17_FallbackStartsAfresh ==
  (pc = "done" /\ FellBack) =>
    /\ consArgs.start = args.start
    /\ consArgs.end = args.end
    /\ result = FetchContributionsConservative(args.start, args.end,
                                               consArgs.include_private)

\* GraphQLBatch had listed a repository that the returned set does not hold
C17_Witness ==
  /\ pc = "done"
  /\ entered = <<"GraphQLBatch", "Conservative">>
  /\ \E i \in 1..Len(GraphQLPartial.repositories) :
       GraphQLPartial.repositories[i] \notin Range(result.repositories)

(* ----------------------------------------------------------------------- *)
(* Repository discovery                                                    *)
(* ----------------------------------------------------------------------- *)
DiscoverOver == pc \in {"returned", "raised"}

\* how many times discovery has made the remote call c
CallCount(c) ==
  Cardinality({i \in 1..Len(discovery.calls) : discovery.calls[i] = c})

\* the repositories the search names
Found ==
  {UrlRepo(HtmlUrl(c)) : c \in Range(SearchCommits(args.start, args.end))}

\* discovery taken step by step returns what discovery taken at once does
DiscoverStepsAgree ==
  DiscoverOver =>
    [ok |-> discovery.ok, val |-> discovery.val] =
      GetReposWithContributions(args.start, args.end, args.include_private)

(* C18: in one discovery, if the search raises, the full enumeration runs  *)
(* exactly once, with the visibility filter that was asked for, and its    *)
(* result is returned; the search is not tried again; and the enumeration  *)
(* is not run when the search succeeds.                                    *)
C18_EnumerationOnlyOnSearchFailure ==
  DiscoverOver =>
    /\ CallCount(<<"search_commits">>) = 1
    /\ SearchRaises(args.start, args.end) =>
         /\ CallCount(<<"get_repos">>) = 1
         /\ pc = "returned" =>
              discovery.val =
                SelectSeq(UserRepos, LAMBDA r : args.include_private \/ r \notin remote.private)
    /\ ~SearchRaises(args.start, args.end) => CallCount(<<"get_repos">>) = 0

\* the search raised, and the enumeration left a private repository out
C18_Witness ==
  /\ pc = "returned"
  /\ SearchRaises(args.start, args.end)
  /\ ~args.include_private
  /\ discovery.calls = <<<<"search_commits">>, <<"get_repos">>>>
  /\ discovery.val # <<>>
  /\ \E r \in Range(UserRepos) : r \in remote.private /\ r \notin Range(discovery.val)

(* C19: when include_private is false, discovery returns only             *)
(* repositories found public, and after a search that succeeded only       *)
(* repositories that were each resolved; a repository whose resolution     *)
(* fails is left out, and neither fails discovery nor starts the           *)
(* enumeration.                                                            *)
C19_PublicOnlyResolved ==
  (DiscoverOver /\ ~args.include_private) =>
    /\ pc = "returned" => \A r \in Range(discovery.val) : r \notin remote.private
    /\ ~SearchRaises(args.start, args.end) =>
         /\ pc = "returned"
         /\ CallCount(<<"get_repos">>) = 0
         /\ \A r \in Range(discovery.val) :
              CallCount(<<"get_repo", r>>) = 1 /\ ~Fails(<<"get_repo", r>>)
         /\ \A r \in Found :
              (~Fails(<<"get_repo", r>>) /\ r \notin remote.private)
                 => r \in Range(discovery.val)

\* a repository the search names could not be resolved: it is left out and
\* another is returned
C19_Witness ==
  /\ pc = "returned"
  /\ ~args.include_private
  /\ ~SearchRaises(args.start, args.end)
  /\ \E r \in Found : Fails(<<"get_repo", r>>) /\ r \notin Range(discovery.val)
  /\ discovery.val # <<>>

(* ----------------------------------------------------------------------- *)
(* The batches of GraphQLBatch                                             *)
(* ----------------------------------------------------------------------- *)
\* the loop over the batches has ended
LoopOver ==
  \/ pc = "done" /\ entered = <<"GraphQLBatch">>
  \/ pc = "Conservative" /\ entered = <<"GraphQLBatch", "Conservative">>

\* the batches taken one by one collect what the loop taken at once does
BatchStepsAgree ==
  LoopOver => result = GraphQLCollect(repos_with_contributions, args.start, args.end)

\* the request for r raises, or its response is of a malformed or
\* error-bearing kind: a status other than 200, an integer or another
\* shape that is no mapping, an errors field, or no repository, no default
\* branch or no history in the data
Malformed(r) ==
  LET resp == Response(r)
  IN \/ Fails(<<"graphql", r>>)
     \/ resp.outer = "tuple" /\ resp.status # 200
     \/ resp.outer \in {"int", "list"}
     \/ /\ ~(resp.outer = "tuple" /\ resp.body = "garbage")
        /\ resp.content \in {"errors", "no_repository", "no_branch", "no_target", "no_history"}

\* the response for r is a sound one
Sound(r) ==
  /\ ~Fails(<<"graphql", r>>)
  /\ Response(r).outer \in {"tuple", "dict"}
  /\ Response(r).status = 200
  /\ Response(r).body # "garbage"
  /\ Response(r).content = "ok"

\* the commits of the user that the remote holds for r
OwnCommits(r) ==
  {i \in 1..Len(remote.commits) :
     remote.commits[i].repo = r /\ remote.commits[i].author = Login}

InBatch(k) ==
  {repos_with_contributions[i] :
     i \in {j \in 1..Len(repos_with_contributions) : (j - 1) \div BatchSize = k - 1}}

(* C20: in GraphQLBatch a repository whose response is malformed or bears  *)
(* errors is skipped, adding neither a commit record nor a repository      *)
(* record, and every other repository of the same batch and of the later   *)
(* ones is still processed.                                                *)
C20_MalformedResponseSkipped ==
  LoopOver =>
    \A r \in Range(repos_with_contributions) :
      /\ Malformed(r) => RecordsOf(r) = 0 /\ RepoRecords(r) = {}
      /\ Sound(r) => /\ RecordsOf(r) = Cardinality(OwnCommits(r))
                     /\ Cardinality(RepoRecords(r)) = 1

\* a repository of the first batch is skipped for a malformed response, and
\* the others of its batch and one of the second batch are in the result
C20_Witness ==
  /\ pc = "done"
  /\ entered = <<"GraphQLBatch">>
  /\ \E r \in InBatch(1) :
       /\ Malformed(r) /\ ~Fails(<<"graphql", r>>)
       /\ RecordsOf(r) = 0 /\ RepoRecords(r) = {}
       /\ \A q \in InBatch(1) \ {r} : RecordsOf(q) > 0 /\ RepoRecords(q) # {}
  /\ \E q \in InBatch(2) : RecordsOf(q) > 0 /\ RepoRecords(q) # {}

(* ----------------------------------------------------------------------- *)
(* The author filter of GraphQLBatch                                       *)
(* ----------------------------------------------------------------------- *)
\* the commits of the remote a commit record stands for
CommitsBehind(rec) ==
  {i \in 1..Len(remote.commits) : HtmlUrl(remote.commits[i]) = rec.url}

\* the commit records of the result that stand for commit c
RecordsFor(c) == {i \in 1..Len(result.commits) : result.commits[i].url = HtmlUrl(c)}

(* C21: every commit record GraphQLBatch produces stands for a commit      *)
(* whose author login is the login of the tracked account; a commit whose  *)
(* author, linked account or login is missing, and a commit of another     *)
(* author, is never in the result.                                         *)
C21_OnlyOwnCommits ==
  LoopOver =>
    /\ \A k \in 1..Len(result.commits) :
         /\ CommitsBehind(result.commits[k]) # {}
         /\ \A i \in CommitsBehind(result.commits[k]) : remote.commits[i].author = Login
    /\ \A c \in Range(remote.commits) : c.author # Login => RecordsFor(c) = {}

\* the history handed to the filter held commits of another author and of
\* authors without a login next to the user's own, which are in the result
C21_Witness ==
  /\ pc = "done"
  /\ entered = <<"GraphQLBatch">>
  /\ \A a \in Range(Unlinked) \cup {"other"} :
       \E c \in Range(remote.commits) :
         /\ c.author = a
         /\ RecordsFor(c) = {}
         /\ c.repo \in Range(repos_with_contributions)
         /\ Sound(c.repo)
         /\ RecordsOf(c.repo) > 0

(* ----------------------------------------------------------------------- *)
(* Timestamps                                                              *)
(* ----------------------------------------------------------------------- *)
(* C22: every commit record of a set returned by any strategy carries a    *)
(* timestamp with a zone; a remote value without one is stored as the      *)
(* same wall-clock time in UTC.                                            *)
C22_ZoneAware ==
  pc = "done" =>
    \A k \in 1..Len(result.commits) :
      /\ result.commits[k].tzinfo # "naive"
      /\ \A i \in CommitsBehind(result.commits[k]) :
           /\ result.commits[k].date = remote.commits[i].day
           /\ Zone(remote.commits[i]) = "naive" => result.commits[k].tzinfo = "UTC"

\* the same, for ExhaustiveEnumeration alone
ExhaustiveZoneAware ==
  entered = <<"ExhaustiveEnumeration">> => C22_ZoneAware

(* ----------------------------------------------------------------------- *)
(* The repositories of a chunk                                             *)
(* ----------------------------------------------------------------------- *)
\* the list discovery returns for chunk ch, and the place of r in it
ChunkList(ch) == GetReposWithContributions(ch[1], ch[2], consArgs.include_private).val

PlaceIn(list, r) == CHOOSE i \in 1..Len(list) : list[i] = r

\* r is beyond the tenth repository of the list of chunk ch
Beyond(ch, r) == r \in Range(ChunkList(ch)) /\ PlaceIn(ChunkList(ch), r) > ChunkRepoCap

\* the commit records of r that bear a date of chunk ch
RecordsIn(ch, r) ==
  {i \in 1..Len(result.commits) :
     /\ UrlRepo(result.commits[i].url) = r
     /\ ch[1] <= result.commits[i].date /\ result.commits[i].date < ch[2]}

(* C23: in each chunk of Conservative at most the first 10 repositories of *)
(* the list discovery returned for that chunk are fetched; a repository    *)
(* beyond the tenth adds no commit record for that chunk, and no           *)
(* repository record unless another chunk fetches it.                      *)
C23_FirstTenPerChunk ==
  pc \in {"chunk", "done"} =>
    \A r \in RemoteRepos :
      /\ \A k \in 1..Len(chunks) :
           /\ Beyond(chunks[k], r) => RecordsIn(chunks[k], r) = {}
           /\ (r \in Range(ChunkList(chunks[k])) /\ ~Beyond(chunks[k], r)) =>
                 /\ RecordsIn(chunks[k], r) # {}
                 /\ RepoRecords(r) # {}
      /\ (\A k \in 1..Len(chunks) :
            r \in Range(ChunkList(chunks[k])) => Beyond(chunks[k], r))
           => RepoRecords(r) = {}

\* a chunk whose list holds more than ten repositories is over: the
\* eleventh has nothing from it, the tenth has
C23_Witness ==
  /\ pc = "done"
  /\ Len(ChunkList(chunks[1])) > ChunkRepoCap
  /\ RecordsIn(chunks[1], ChunkList(chunks[1])[ChunkRepoCap + 1]) = {}
  /\ RecordsIn(chunks[1], ChunkList(chunks[1])[ChunkRepoCap]) # {}
  /\ \E r \in RemoteRepos : Beyond(chunks[1], r) /\ RecordsIn(chunks[2], r) # {}
  /\ \E r \in RemoteRepos : Beyond(chunks[1], r) /\ RepoRecords(r) = {}

(* ----------------------------------------------------------------------- *)
(* The reserved slots                                                      *)
(* ----------------------------------------------------------------------- *)
(* C24: in the set returned by any strategy, after a fallback as well,     *)
(* the pull_requests, issues and reviews sequences are empty.              *)
C24_ReservedSlotsEmpty ==
  pc = "done" =>
    /\ DOMAIN result = {"commits", "pull_requests", "issues", "reviews", "repositories"}
    /\ result.pull_requests = <<>>
    /\ result.issues = <<>>
    /\ result.reviews = <<>>

\* a set with commits in it, returned after a fallback
C24_Witness ==
  /\ pc = "done"
  /\ FellBack
  /\ result.commits # <<>>
  /\ result.repositories # <<>>
  /\ result.issues = <<>>

(* ----------------------------------------------------------------------- *)
(* Credentials                                                             *)
(* ----------------------------------------------------------------------- *)
NoCredentials == ~Truthy(given.token) /\ ~Truthy(given.GITHUB_TOKEN)

(* C25: constructing the tracker with no token argument and no             *)
(* GITHUB_TOKEN in the environment fails before a remote client is         *)
(* created and before any remote call; a token given as argument is the    *)
(* one used.                                                               *)
C25_TokenRequired ==
  pc # "new" =>
    /\ NoCredentials =>
         /\ pc = "raised"
         /\ tracker.github = None
         /\ tracker.calls = <<>>
    /\ Truthy(given.token) =>
         /\ tracker.token = given.token
         /\ tracker.github \in {None, given.token}
         /\ pc = "constructed" => tracker.github = given.token

\* the constructor has raised for want of a token
C25_Witness ==
  /\ pc = "raised"
  /\ given.token = None
  /\ given.GITHUB_TOKEN = None
  /\ tracker.github = None
  /\ tracker.calls = <<>>

\* a token argument wins over the environment
TokenArgumentUsed ==
  /\ pc = "constructed"
  /\ given.token = "tok_a"
  /\ given.GITHUB_TOKEN = "tok_env"
  /\ tracker.github = "tok_a"

(* ----------------------------------------------------------------------- *)
(* The AI summary                                                          *)
(* ----------------------------------------------------------------------- *)
\* summarize_contributions has been called and has returned
Summarized == pc \in {"summarized", "rendered"}

\* the call of the collaborator has been made and has failed
CallFailed == Summarized /\ CallFails(remote.bedrock.response)

(* C26: when the call of the AI collaborator fails in any way,             *)
(* summarize_contributions does not raise but returns a string that holds  *)
(* the error message and the whole report text it was given, and           *)
(* generate_bedrock_summary still returns a summary to its caller.         *)
C26_ErrorSummaryReturned ==
  /\ pc = "raised" => remote.bedrock.client = "raises"
  /\ CallFailed =>
       /\ Contains(report.bedrock_summary, <<Extracted(remote.bedrock.response).error>>)
       /\ Contains(report.bedrock_summary, report.regular_summary)
       /\ report.regular_summary = GenerateSummary(result, "markdown")
  /\ (CallFailed /\ pc = "rendered") =>
       /\ Contains(report.text, <<Extracted(remote.bedrock.response).error>>)
       /\ Contains(report.text, GenerateLowLevelTasks(result))

\* a response without content: the summary returned holds the KeyError and
\* the report of two commits
C26_Witness ==
  /\ pc = "rendered"
  /\ CallFailed
  /\ ~InvokeRaises(remote.bedrock.response)
  /\ Len(result.commits) = 2
  /\ Contains(report.bedrock_summary, <<"'content'">>)
  /\ Contains(report.bedrock_summary, report.regular_summary)
  /\ report.text # <<>>

\* the lines of the AI output, of the section and of the summary returned
SummaryLines == Split(report.bedrock_summary)

SectionLines == Split(GenerateLowLevelTasks(result))

ReturnedLines == Split(report.text)

\* a markdown heading: one to six "#" and a space at the start of the line
IsHeading(line) ==
  \E k \in 1..6 : /\ Len(line) > k
                  /\ \A i \in 1..k : line[i] = "#"
                  /\ line[k + 1] = " "

\* the heading's text occurs in the AI output
Present(heading) == Contains(report.bedrock_summary, heading)

\* the lines of the AI output that hold the heading's text
HeadingAt(heading) ==
  {i \in 1..Len(SummaryLines) : Contains(SummaryLines[i], heading)}

\* the first heading below line i, or the place past the last line
NextHeading(i) ==
  LET below == {j \in (i + 1)..Len(SummaryLines) : IsHeading(SummaryLines[j])}
  IN IF below = {} THEN Len(SummaryLines) + 1
     ELSE CHOOSE j \in below : \A k \in below : j <= k

Filled(lines) == SelectSeq(lines, LAMBDA line : line # <<>>)

\* the section stands right before the text of the high-level heading
AboveHighLevel ==
  Contains(report.text, GenerateLowLevelTasks(result) \o <<NL, NL>> \o HighLevelHeading)

\* the section stands between the overview section and the heading after it
BelowOverview ==
  LET i == CHOOSE k \in HeadingAt(OverviewHeading) :
             \A j \in HeadingAt(OverviewHeading) : k <= j
      n == NextHeading(i)
  IN Filled(ReturnedLines)
       = Filled(SubSeq(SummaryLines, 1, n - 1) \o SectionLines
                  \o SubSeq(SummaryLines, n, Len(SummaryLines)))

\* the section is the end of the summary returned
AtTheEnd ==
  report.text = report.bedrock_summary \o <<NL, NL>> \o GenerateLowLevelTasks(result)

Placed ==
  IF Present(HighLevelHeading) THEN AboveHighLevel
  ELSE IF Present(OverviewHeading) THEN BelowOverview
  ELSE AtTheEnd

(* C27: whatever string the AI returns, generate_bedrock_summary puts the  *)
(* Low-Level Tasks section right before the heading '## High-Level Tasks   *)
(* Completed' when the output has that heading; otherwise right after the  *)
(* '## Overview' section, before the next heading, when the output has     *)
(* '## Overview'; otherwise at the very end.                               *)
C27_SectionPlaced == pc = "rendered" => Placed

\* every "#" of the AI output belongs to the mark of a heading of level 2
PlainHeadings ==
  \A i \in 1..Len(SummaryLines) :
    LET line == SummaryLines[i]
    IN (\E k \in 1..Len(line) : line[k] = "#") =>
         /\ Len(line) > 3
         /\ line[1] = "#" /\ line[2] = "#" /\ line[3] = " "
         /\ \A k \in 3..Len(line) : line[k] # "#"

\* with headings of level 2 only and no "#" elsewhere the section is placed
\* as described
PlacedForPlainHeadings == (pc = "rendered" /\ PlainHeadings) => Placed

\* an overview whose item holds "##": the section is put inside that line
SectionInsideLine ==
  /\ pc = "rendered"
  /\ report.bedrock_summary = Join(<<OverviewHeading, <<"-", " ", "see ", "#", "#", "12">> >>)
  /\ result.commits = <<>>
  /\ ReturnedLines = <<OverviewHeading, <<"-", " ", "see ">>, <<>>,
                       LowLevelHeading, <<>>, <<NoCommitsSentence>>, <<>>,
                       <<"#", "#", "12">> >>

\* a heading of level 1 below the overview: the section is put past it
SectionPastHeading ==
  /\ pc = "rendered"
  /\ report.bedrock_summary = Join(<<OverviewHeading, <<"#", " ", "Summary">>, <<"-", " ", "shipped">> >>)
  /\ result.commits = <<>>
  /\ ReturnedLines = <<OverviewHeading, <<"#", " ", "Summary">>, <<"-", " ", "shipped">>, <<>>,
                       LowLevelHeading, <<>>, <<NoCommitsSentence>> >>

(* ----------------------------------------------------------------------- *)
(* Reports                                                                 *)
(* ----------------------------------------------------------------------- *)
Rendered(method) == pc = "rendered" /\ report.of[1] = method

ReportLines == Split(report.text)

\* what a line of the report says of a commit: <<repo, message, sha>>
Told(line) ==
  CASE Len(line) = 9 /\ line[3] = "**" /\ line[5] = "**: " -> <<line[4], line[6], line[8]>>
    [] Len(line) = 8 /\ line[1] = "-" /\ line[4] = ": " -> <<line[3], line[5], line[7]>>
    [] OTHER -> <<>>

\* the commit lines of the report, in its order
CommitLines == SelectSeq(ReportLines, LAMBDA line : Told(line) # <<>>)

\* the number a line states after the label that ends with this text
Stated(labels) ==
  {line[Len(line)] : line \in {l \in Range(ReportLines) :
                                 /\ Len(l) >= 2
                                 /\ l[Len(l) - 1] \in labels}}

(* C28: for every ContributionSet the markdown and the plain report of     *)
(* generate_summary state a total of commits equal to the number of commit *)
(* records and a count of repositories equal to the number of repository   *)
(* records, and hold one line per commit record with its repository,       *)
(* message and short hash, in the order of the commit sequence.            *)
C28_ReportCountsAndLines ==
  Rendered("generate_summary") =>
    /\ Stated({"**Total Commits**: ", "Total Commits: "}) = {Str(Len(result.commits))}
    /\ Stated({"**Repositories with Contributions**: ", "Repositories with Contributions: "})
         = {Str(Len(result.repositories))}
    /\ Len(CommitLines) = Len(result.commits)
    /\ \A i \in 1..Len(result.commits) :
         Told(CommitLines[i]) =
           <<result.commits[i].repo, result.commits[i].message, result.commits[i].sha>>

\* a report of three commits of two repositories, not in sorted order
C28_Witness ==
  /\ Rendered("generate_summary")
  /\ report.of[2] = "plain"
  /\ Len(result.commits) = 3
  /\ result.commits[1].repo = "gamma"
  /\ result.commits[2].repo = "alpha"
  /\ Len(result.repositories) = 2
  /\ Len(CommitLines) = 3

(* ----------------------------------------------------------------------- *)
(* The Low-Level Tasks section                                             *)
(* ----------------------------------------------------------------------- *)
IsHeader(line) == Len(line) = 4 /\ line[3] = "Repository: "

IsCommit(line) == Len(line) = 8 /\ line[5] = "Commit: "

\* the repository headers of the section, in its order
Headers == SelectSeq(ReportLines, IsHeader)

\* the places of the headers above line i
HeadersAbove(i) == {j \in 1..(i - 1) : IsHeader(ReportLines[j])}

\* the name in the header line i stands under
HeaderOf(i) ==
  ReportLines[CHOOSE j \in HeadersAbove(i) : \A k \in HeadersAbove(i) : k <= j][4]

\* what the commit lines under the header of name say: <<sha, message>>
LinesUnder(name) ==
  LET places == SelectSeq([i \in 1..Len(ReportLines) |-> i],
                          LAMBDA i : /\ IsCommit(ReportLines[i])
                                     /\ HeadersAbove(i) # {}
                                     /\ HeaderOf(i) = name)
  IN [n \in 1..Len(places) |-> <<ReportLines[places[n]][6], ReportLines[places[n]][8]>>]

\* the commit records of repository name, as <<sha, message>>
RecordsNamed(name) ==
  LET own == SelectSeq(result.commits, LAMBDA c : c.repo = name)
  IN [n \in 1..Len(own) |-> <<own[n].sha, own[n].message>>]

(* C29: in the Low-Level Tasks section the repositories come in            *)
(* lexicographic order of name whatever the order of the commit sequence,  *)
(* each repository header appears exactly once, and under it stands one    *)
(* line per commit record of that repository and no commit of another.     *)
C29_GroupedAndSorted ==
  (Rendered("_generate_low_level_tasks") /\ result.commits # <<>>) =>
    /\ \A i, j \in 1..Len(Headers) : i < j => Rank(Headers[i][4]) < Rank(Headers[j][4])
    /\ {Headers[i][4] : i \in 1..Len(Headers)}
         = {result.commits[i].repo : i \in 1..Len(result.commits)}
    /\ \A i \in 1..Len(ReportLines) : IsCommit(ReportLines[i]) => HeadersAbove(i) # {}
    /\ \A name \in Range(SortedNames) : LinesUnder(name) = RecordsNamed(name)

\* commits of gamma, alpha and gamma again: alpha comes first in the section
C29_Witness ==
  /\ Rendered("_generate_low_level_tasks")
  /\ Len(result.commits) = 3
  /\ result.commits[1].repo = "gamma"
  /\ result.commits[2].repo = "alpha"
  /\ result.commits[3].repo = "gamma"
  /\ Len(Headers) = 2
  /\ Headers[1][4] = "alpha"
  /\ Len(LinesUnder("gamma")) = 2

(* C30: for a ContributionSet without commit records the Low-Level Tasks   *)
(* section is its heading and the fixed sentence 'No commits found in the  *)
(* specified time period.', without repository header or commit line,      *)
(* whatever the repository list holds.                                     *)
C30_NoCommitsSentence ==
  (Rendered("_generate_low_level_tasks") /\ result.commits = <<>>) =>
    /\ ReportLines = << <<"#", "#", " ", "Low-Level Tasks">>, <<>>,
                        <<"No commits found in the specified time period.">> >>
    /\ Headers = <<>>
    /\ \A i \in 1..Len(ReportLines) : ~IsCommit(ReportLines[i])

\* no commit record, two repository records
C30_Witness ==
  /\ Rendered("_generate_low_level_tasks")
  /\ result.commits = <<>>
  /\ Len(result.repositories) = 2
  /\ Len(ReportLines) = 3

(* ----------------------------------------------------------------------- *)
(* The limit                                                               *)
(* ----------------------------------------------------------------------- *)
\* the call is over and a positive limit was given
Limited == pc = "done" /\ args.limit > 0

(* C31: with a positive limit the call processes at most that many         *)
(* repositories, so the result holds at most that many repository records, *)
(* whichever strategy is selected.                                         *)
C31_LimitBoundsRepositories ==
  Limited => Len(result.repositories) <= args.limit

\* the strategies that walk the limited list keep to the limit when they
\* return themselves
LimitKeptByListWalkers ==
  (Limited /\ entered \in {<<"ExhaustiveEnumeration">>, <<"GraphQLBatch">>}) =>
     Len(result.repositories) <= args.limit

\* BulkSearch with limit 1 has returned two repository records
LimitIgnoredByBulkSearch ==
  /\ Limited
  /\ entered = <<"BulkSearch">>
  /\ args.limit = 1
  /\ Len(repos_with_contributions) = 1
  /\ Len(result.repositories) = 2

\* Conservative with limit 1 has returned two repository records
LimitIgnoredByConservative ==
  /\ Limited
  /\ entered = <<"Conservative">>
  /\ args.limit = 1
  /\ Len(result.repositories) = 2

(* ----------------------------------------------------------------------- *)
(* Private repositories                                                    *)
(* ----------------------------------------------------------------------- *)
\* the repository a commit record comes from, read from its URL
RecordRepo(rec) == UrlRepo(rec.url)

\* the list of the call came from the enumeration of the account, which
\* reads the visibility of each repository from the listing itself
FromListing == ~args.optimize \/ SearchRaises(args.start, args.end)

\* the visibility of r could not be resolved: the remote raises when asked
\* for r, and the strategy at work had nothing but that answer to go by
Unresolved(r) ==
  /\ Fails(<<"get_repo", r>>)
  /\ ~(FromListing /\ entered \in {<<"ExhaustiveEnumeration">>, <<"GraphQLBatch">>})

Hidden(r) == IsPrivate(r) \/ Unresolved(r)

\* the call is over and private repositories were not asked for
PublicAsked == pc = "done" /\ ~args.include_private

(* C32: when include_private is false, no commit record of the set any     *)
(* strategy returns belongs to a private repository or to a repository     *)
(* whose visibility could not be resolved.                                 *)
C32_NoHiddenCommits ==
  PublicAsked => \A i \in 1..Len(result.commits) : ~Hidden(RecordRepo(result.commits[i]))

\* every strategy but BulkSearch keeps the commits of hidden repositories out
HiddenKeptOutElsewhere ==
  (PublicAsked /\ entered[1] # "BulkSearch") =>
     \A i \in 1..Len(result.commits) : ~Hidden(RecordRepo(result.commits[i]))

\* BulkSearch has returned a commit of a private repository that it left
\* out of the repository records
HiddenCommitFromBulkSearch ==
  /\ PublicAsked
  /\ entered = <<"BulkSearch">>
  /\ \E i \in 1..Len(result.commits) :
       /\ IsPrivate(RecordRepo(result.commits[i]))
       /\ \A j \in 1..Len(result.repositories) :
            result.repositories[j].url # RepoUrl(RecordRepo(result.commits[i]))

\* the repository a repository record stands for, read from its URL
Recorded(rec) == UrlRepo(rec.url)

\* the strategy whose records the call has returned
Returning == entered[Len(entered)]

(* C33: in the set any strategy returns, the private flag of every         *)
(* repository record is the visibility the repository has on the remote:   *)
(* a private repository is never reported as public.                       *)
C33_PrivateFlagIsVisibility ==
  pc = "done" =>
    \A i \in 1..Len(result.repositories) :
      result.repositories[i].private = IsPrivate(Recorded(result.repositories[i]))

\* the strategies that read repo.private report the visibility
FlagReadFromRemote ==
  (pc = "done" /\ Returning \in {"ExhaustiveEnumeration", "Conservative"}) =>
    \A i \in 1..Len(result.repositories) :
      result.repositories[i].private = IsPrivate(Recorded(result.repositories[i]))

\* a private repository reported as public by the strategy named
ReportedPublic(strategy) ==
  /\ pc = "done"
  /\ entered = <<strategy>>
  /\ args.include_private
  /\ \E i \in 1..Len(result.repositories) :
       /\ IsPrivate(Recorded(result.repositories[i]))
       /\ ~result.repositories[i].private

PrivateReportedPublicByBulkSearch == ReportedPublic("BulkSearch")

PrivateReportedPublicByGraphQLBatch == ReportedPublic("GraphQLBatch")

(* ----------------------------------------------------------------------- *)
(* The fallback of GraphQLBatch                                            *)
(* ----------------------------------------------------------------------- *)
(* C34: when GraphQLBatch falls back to Conservative, the call returns     *)
(* what Conservative returns when run directly on the caller's account,    *)
(* date range and include_private: the include_private given to            *)
(* get_contributions is the one Conservative runs with.                    *)
C34_GraphQLFallbackKeepsPrivacy ==
  (pc = "done" /\ GraphQLCollectedNothing) =>
    /\ consArgs.include_private = args.include_private
    /\ result = ConservativeDirect

\* the fallback runs Conservative without the private repositories, whatever
\* the caller asked for
GraphQLFallbackIsPublicOnly ==
  (pc \in {"Conservative", "done"} /\ GraphQLCollectedNothing) =>
    /\ ~consArgs.include_private
    /\ (pc = "done" =>
          result = FetchContributionsConservative(args.start, args.end, FALSE))

\* the caller asked for the private repositories and the fallback has left
\* out a commit that Conservative run directly returns
PrivateLostInGraphQLFallback ==
  /\ pc = "done"
  /\ GraphQLCollectedNothing
  /\ args.include_private
  /\ result.commits = <<>>
  /\ ConservativeDirect.commits # <<>>

(* ----------------------------------------------------------------------- *)
(* Chunks that fail                                                        *)
(* ----------------------------------------------------------------------- *)
\* the body of chunk ch was left by an exception
ChunkFailed(ch) == ChunkRaises(ch[1], ch[2], consArgs.include_private)

\* the commits of the account on the remote that fall into chunk ch
CommitsOf(ch) ==
  {c \in Range(remote.commits) : c.author = Login /\ ch[1] <= c.day /\ c.day < ch[2]}

\* what the chunks that did not fail collect, one after the other
RECURSIVE CollectedBy(_, _)
CollectedBy(chs, acc) ==
  IF chs = <<>> THEN acc
  ELSE CollectedBy(Tail(chs),
         IF ChunkFailed(Head(chs)) THEN acc
         ELSE ConservativeRepos(Take(ChunkList(Head(chs)), ChunkRepoCap),
                                Head(chs)[1], Head(chs)[2], acc))

(* C35: in Conservative a chunk that fails, in discovery or anywhere else  *)
(* in its body, does not stop the run: the cursor moves to the end of each *)
(* chunk whether the chunk succeeded or failed, every later chunk is still *)
(* processed, and the records of the chunks before it stay in the result.  *)
C35_FailedChunkDoesNotStop ==
  pc \in {"chunk", "done"} =>
    /\ chunks # <<>> => current_date = chunks[Len(chunks)][2]
    /\ \A k \in 1..(Len(chunks) - 1) : chunks[k + 1][1] = chunks[k][2]
    /\ (pc = "done" /\ consArgs.start < consArgs.end) =>
          /\ chunks[1][1] = consArgs.start
          /\ chunks[Len(chunks)][2] = consArgs.end
    /\ result = CollectedBy(chunks, EmptyContributions)

\* the second of three chunks has failed: the records of the first are in
\* the result and the third was processed
C35_Witness ==
  /\ pc = "done"
  /\ Len(chunks) = 3
  /\ ~ChunkFailed(chunks[1])
  /\ ChunkFailed(chunks[2])
  /\ CommitsOf(chunks[2]) # {}
  /\ RecordsOn(<<"me", "x">>, 1) # {}
  /\ chunks[3][2] = consArgs.end

\* the first chunk has failed and the second has given its records
RecordsAfterFailedChunk ==
  /\ pc = "done"
  /\ Len(chunks) >= 2
  /\ ChunkFailed(chunks[1])
  /\ CommitsOf(chunks[1]) # {}
  /\ RecordsOn(<<"me", "y">>, 8) # {}

(* ----------------------------------------------------------------------- *)
(* Termination and the turns of the loops                                  *)
(* ----------------------------------------------------------------------- *)
\* the call is over: it has returned or raised
Over == pc \in {"done", "raised"}

\* ceil(n / d)
CeilDiv(n, d) == (n + d - 1) \div d

\* the places of the visits in the events
VisitsAt == {i \in 1..Len(events) : events[i].event = "visit"}

\* no pass goes to a repository twice
OncePerPass ==
  \A i, j \in VisitsAt :
    (i < j /\ events[i].pass = events[j].pass) => events[i].repo # events[j].repo

\* the keys of repo_commits, which BulkSearch goes through
BulkKeys == GroupKeys(SearchCommits(args.start, args.end), <<>>)

\* the turns the loop of Conservative has made once Conservative is over
ChunkTurns ==
  (pc = "done" /\ entered # <<>> /\ entered[Len(entered)] = "Conservative") =>
    Len(chunks) = IF consArgs.start < consArgs.end
                    THEN CeilDiv(consArgs.end - consArgs.start, ChunkDays)
                  ELSE 0

LoopsBounded ==
  /\ ChunkTurns
  /\ OncePerPass
  /\ "BulkSearch" \in {entered[i] : i \in 1..Len(entered)} =>
       LET keys == BulkKeys
       IN Cardinality({keys[i] : i \in 1..Len(keys)}) = Len(keys)

(* C36: every get_contributions call ends when each remote call returns or *)
(* raises: the chunk loop of Conservative makes ceil((end - start) / 7)    *)
(* turns when start < end and none when start >= end, and no strategy goes *)
(* to a repository of its list more than once in one pass.                 *)
C36_Terminates == []LoopsBounded /\ <>Over

\* a range of 24 days was worked in four chunks, one of which failed, with
\* every repository gone through in the first chunk
C36_Witness ==
  /\ pc = "done"
  /\ entered = <<"Conservative">>
  /\ consArgs.end - consArgs.start = 24
  /\ Len(chunks) = 4
  /\ \E k \in 1..4 : ChunkFailed(chunks[k])
  /\ Cardinality({i \in VisitsAt : events[i].pass = <<"chunk", 0>>}) = MaxLoopRepos

\* a call over an empty range: Conservative has returned without a turn
NoTurnForEmptyRange ==
  /\ pc = "done"
  /\ entered = <<"Conservative">>
  /\ consArgs.start >= consArgs.end
  /\ chunks = <<>>

\* GraphQLBatch has gone through three batches, each repository once
ThreeBatchesOnce ==
  /\ pc = "done"
  /\ entered = <<"GraphQLBatch">>
  /\ Len(repos_with_contributions) > 2 * BatchSize
  /\ Cardinality(VisitsAt) = Len(repos_with_contributions)

\* taken turn by turn, ExhaustiveEnumeration returns what it returns taken
\* at once
ExhaustiveStepsAgree ==
  (pc = "done" /\ entered = <<"ExhaustiveEnumeration">>) =>
    result = FetchContributionsExhaustive(repos_with_contributions, args.start, args.end)

(* ----------------------------------------------------------------------- *)
(* The pauses                                                              *)
(* ----------------------------------------------------------------------- *)
\* the pauses taken so far, in order
Pauses == SelectSeq(events, LAMBDA e : e.event = "sleep")

\* the batches GraphQLBatch makes of the list it is given
BatchCount == CeilDiv(Len(repos_with_contributions), BatchSize)

\* Conservative is over with N chunks and N - 1 pauses, none of them after
\* the last chunk
ChunkPausesBetweenOnly ==
  (pc = "done" /\ entered # <<>> /\ entered[Len(entered)] = "Conservative") =>
    /\ Len(Pauses) = IF chunks = <<>> THEN 0 ELSE Len(chunks) - 1
    /\ \A i \in 1..Len(Pauses) : Pauses[i].at # consArgs.end

\* GraphQLBatch is over and has paused after each batch but the last
BatchPausesBetweenOnly ==
  (pc = "done" /\ entered = <<"GraphQLBatch">>) =>
    /\ Len(Pauses) = IF BatchCount = 0 THEN 0 ELSE BatchCount - 1
    /\ \A i \in 1..Len(Pauses) :
         /\ Pauses[i].seconds = BatchPause
         /\ Pauses[i].at = i * BatchSize
         /\ Pauses[i].at < Len(repos_with_contributions)

(* C37: Conservative pauses between chunks only, N - 1 times in a run over *)
(* N chunks and never after the last chunk, and GraphQLBatch pauses only   *)
(* after a batch that another batch follows.                               *)
C37_PausesBetweenOnly == ChunkPausesBetweenOnly /\ BatchPausesBetweenOnly

\* a run over a single chunk that paused after it
PauseAfterOnlyChunk ==
  /\ pc = "done"
  /\ entered = <<"Conservative">>
  /\ Len(chunks) = 1
  /\ Pauses = <<Sleep(ChunkPause, consArgs.end)>>

\* a run whose second chunk failed: no pause between it and the third
NoPauseAfterFailedChunk ==
  /\ pc = "done"
  /\ entered = <<"Conservative">>
  /\ Len(chunks) = 3
  /\ ChunkFailed(chunks[2])
  /\ \A i \in 1..Len(Pauses) : Pauses[i].at # chunks[2][2]

\* three batches with a pause after the first and after the second
TwoPausesForThreeBatches ==
  /\ pc = "done"
  /\ entered = <<"GraphQLBatch">>
  /\ BatchCount = 3
  /\ Len(Pauses) = 2

(* ----------------------------------------------------------------------- *)
(* The section, once                                                       *)
(* ----------------------------------------------------------------------- *)
\* how many times sub stands in text
Occurrences(text, sub) ==
  Cardinality({i \in 1..(Len(text) - Len(sub) + 1) :
                 SubSeq(text, i, i + Len(sub) - 1) = sub})

\* the Low-Level Tasks sections of the summary returned
SectionsReturned == Occurrences(report.text, GenerateLowLevelTasks(result))

\* the times the AI output holds '## High-Level Tasks Completed'
HighLevelHeadings == Occurrences(report.bedrock_summary, HighLevelHeading)

(* C38: for every AI output, the summary generate_bedrock_summary returns  *)
(* holds the Low-Level Tasks section exactly once, also when the heading   *)
(* '## High-Level Tasks Completed' occurs more than once in the AI output. *)
C38_SectionExactlyOnce == pc = "rendered" => SectionsReturned = 1

\* the section is there once for each '## High-Level Tasks Completed' of the
\* AI output, and once when the AI output has none
SectionPerHeading ==
  pc = "rendered" =>
    SectionsReturned = IF HighLevelHeadings = 0 THEN 1 ELSE HighLevelHeadings

\* the AI output has the heading twice and the summary the section twice
SectionTwice ==
  /\ pc = "rendered"
  /\ HighLevelHeadings = 2
  /\ SectionsReturned = 2
  /\ result.commits # <<>>

(* ----------------------------------------------------------------------- *)
(* The two entry points                                                    *)
(* ----------------------------------------------------------------------- *)
\* the defaults of the parameters of get_contributions; a limit of 0 stands
\* for None
Defaults ==
  [include_private |-> TRUE, optimize |-> TRUE, limit |-> 0, use_graphql |-> FALSE,
   use_bulk |-> TRUE, use_conservative |-> FALSE]

\* the keyword arguments a caller may give, and those that choose a strategy
StrategyKeywords == {"use_graphql", "use_bulk", "use_conservative"}

Keywords == StrategyKeywords \cup {"include_private"}

Kwargs == UNION {[S -> BOOLEAN] : S \in SUBSET Keywords}

\* the parameters of get_contributions(start_date, end_date, **kwargs)
Bind(start_date, end_date, kwargs) ==
  [k \in DOMAIN Defaults \cup {"start", "end"} |->
     IF k = "start" THEN start_date
     ELSE IF k = "end" THEN end_date
     ELSE IF k \in DOMAIN kwargs THEN kwargs[k]
     ELSE Defaults[k]]

\* the store_true options of the command line, and those that choose a
\* strategy
StrategyFlags == {"--graphql", "--bulk", "--conservative"}

Flags == StrategyFlags \cup {"--include-private", "--no-optimize"}

\* the call main makes of get_contributions for the options it has parsed
ParsedCall(start_date, end_date, flags) ==
  [start |-> start_date, end |-> end_date,
   include_private |-> "--include-private" \in flags,
   optimize |-> ~("--no-optimize" \in flags),
   limit |-> 0,
   use_graphql |-> "--graphql" \in flags,
   use_bulk |-> "--bulk" \in flags,
   use_conservative |-> "--conservative" \in flags]

\* get_contributions has not been called yet
NotCalled == Bind(-1, -1, <<>>)

\* what the two callers give: a command line, or the arguments of a call
CommandLines ==
  [entry : {"main"}, start : {0}, end : {0, EndDay}, flags : SUBSET Flags,
   kwargs : {<<>>}]

LibraryCalls ==
  [entry : {"library"}, start : {0}, end : {0, EndDay}, flags : {{}}, kwargs : Kwargs]

InitEntry ==
  /\ remote \in {PlainRemote, [PlainRemote EXCEPT !.commits = <<>>]}
  /\ given \in CommandLines \cup LibraryCalls
  /\ args = NotCalled
  /\ pc = given.entry
  /\ repos_with_contributions = <<>>
  /\ consArgs = NoArgs
  /\ entered = <<>>
  /\ result = EmptyContributions
  /\ current_date = 0
  /\ chunks = <<>>
  /\ discovery = Raised
  /\ batch_start = 0
  /\ tracker = NoTracker
  /\ report = NoReport
  /\ events = <<>>

\* main: the range is validated, then get_contributions is called with every
\* strategy parameter taken from its option
Main ==
  /\ pc = "main"
  /\ IF given.start >= given.end
       THEN /\ pc' = "exit"
            /\ UNCHANGED args
     ELSE /\ pc' = "entry"
          /\ args' = ParsedCall(given.start, given.end, given.flags)
  /\ UNCHANGED <<remote, repos_with_contributions, consArgs, entered, result>>
  /\ UNCHANGED aux

\* a caller of the library: tracker.get_contributions(start, end, **kwargs)
LibraryCall ==
  /\ pc = "library"
  /\ pc' = "entry"
  /\ args' = Bind(given.start, given.end, given.kwargs)
  /\ UNCHANGED <<remote, repos_with_contributions, consArgs, entered, result>>
  /\ UNCHANGED aux

NextEntry ==
  \/ Main
  \/ LibraryCall
  \/ GetContributions
  \/ ExhaustiveEnumeration
  \/ Conservative
  \/ BulkSearch
  \/ GraphQLBatch

SpecEntry == InitEntry /\ [][NextEntry]_vars

\* the caller has said nothing of the strategy
NoPreferenceGiven ==
  /\ given.flags \cap StrategyFlags = {}
  /\ DOMAIN given.kwargs \cap StrategyKeywords = {}

\* a strategy has been entered
Dispatched == entered # <<>>

(* C39: when the caller expresses no strategy preference, the strategy     *)
(* entered is the same through both entry points: get_contributions called *)
(* with its default arguments and the command line run without             *)
(* --conservative, --bulk or --graphql both run ExhaustiveEnumeration.     *)
C39_SameDefaultStrategy ==
  (Dispatched /\ NoPreferenceGiven) => entered[1] = "ExhaustiveEnumeration"

\* the command line without a strategy option runs ExhaustiveEnumeration
CommandLineDefaultIsExhaustive ==
  (Dispatched /\ NoPreferenceGiven /\ given.entry = "main") =>
    entered[1] = "ExhaustiveEnumeration"

\* a call without a strategy argument runs BulkSearch
LibraryDefaultIsBulkSearch ==
  (Dispatched /\ NoPreferenceGiven /\ given.entry = "library") =>
    entered[1] = "BulkSearch"

\* get_contributions(start, end, include_private=False) has ended in
\* BulkSearch
DefaultCallRanBulkSearch ==
  /\ pc = "done"
  /\ given.entry = "library"
  /\ DOMAIN given.kwargs = {"include_private"}
  /\ ~given.kwargs["include_private"]
  /\ entered = <<"BulkSearch">>
  /\ result.commits # <<>>

\* the command line without options has ended in ExhaustiveEnumeration
PlainCommandLineRanExhaustive ==
  /\ pc = "done"
  /\ given.entry = "main"
  /\ given.flags = {}
  /\ entered = <<"ExhaustiveEnumeration">>
  /\ result.commits # <<>>

====
